---- MODULE Spec2Model ----
(***************************************************************************)
(* Crawl orchestration and resumable state of the Jira scraper:            *)
(*   - FileStateManager   (src/src/utils/state.py)                         *)
(*   - StoragePipeline    (src/src/scraper/pipelines/storage.py)           *)
(*   - JiraSpider         (src/src/scraper/spider.py)                      *)
(* Strings that the code splits or strips (issue keys, project keys) are   *)
(* sequences of one-character strings.  Optional values are sets with at   *)
(* most one element: None is {} and a value x is {x}.                      *)
(***************************************************************************)
EXTENDS Integers, Sequences, FiniteSets, TLC

----------------------------------------------------------------------------
(* Bounds of the model *)

\* Epoch timestamps range over 1..MaxTime (in ticks).
MaxTime == 2
\* Ticks in one calendar day; a date string keeps only the day.
TicksPerDay == 2
\* Size of a run of records outside the tracked keys that is stored back to back.
OtherBatch == 97
\* Largest number of untracked keys held in the processed set.
MaxOther == 100

\* The day of datetime.now().
NowDay == 33
\* Largest total a search response reports.
MaxTotal == 2
\* Largest number of issues in one search response, largest maxResults a
\* response advertises and largest max_issues.
MaxPageItems == 2

\* Largest burst a rate limiter is built with.
MaxBurst == 2
\* Seconds the clock runs, before and after the one long pause of a run.
MaxTicks == 3
\* Script runs after which no new acquire call starts.
MaxEvals == 3
\* Largest RETRY_TIMES.
MaxRetryTimes == 10

\* The validation errors counted in a run
MaxErrors == 2

\* The issue requests of a run that end in the errback
MaxHandledErrors == 1

(* Program constants *)

\* state.py:124  len(self._processed_issues) % 100 == 0
SAVE_EVERY == 100
\* state.py:67   keep only the last 10000 issues
MAX_SAVED == 10000
\* spider.py:63  datetime.now() - timedelta(days=30)
DEFAULT_DAYS == 30
\* spider.py:90 and 204  max_results: int = 50, data.get("maxResults", 50)
DEFAULT_MAX_RESULTS == 50
\* redis.py:93 and 97  redis.call('EXPIRE', key, 3600)
EXPIRE_SECONDS == 3600
\* middlewares.py:83  getattr(settings, "retry_start_delay", 1.0)
START_DELAY == 1
\* middlewares.py:84  getattr(settings, "retry_max_delay", 300.0)
MAX_DELAY == 300
\* middlewares.py:85  getattr(settings, "retry_exponential_base", 2.0)
EXPONENTIAL_BASE == 2

----------------------------------------------------------------------------
(* Strings *)

\* "-" in s
HasDash(s) == \E i \in 1..Len(s) : s[i] = "-"

\* s.split("-")[0]
RECURSIVE SplitFirst(_)
SplitFirst(s) ==
    IF s = <<>> THEN <<>>
    ELSE IF Head(s) = "-" THEN <<>>
    ELSE <<Head(s)>> \o SplitFirst(Tail(s))

\* not s.strip()
IsBlank(s) == \A i \in 1..Len(s) : s[i] = " "

(* datetime: a calendar day and the tick within it *)

\* datetime.timestamp()
Timestamp(dt) == dt.day * TicksPerDay + dt.tick

\* datetime.fromtimestamp(ts)
FromTimestamp(ts) == [day |-> ts \div TicksPerDay, tick |-> ts % TicksPerDay]

\* datetime.strftime("%Y-%m-%d"): the date string is the day alone
Strftime(dt) == dt.day

(* float: the rationals, as a numerator and a positive denominator in lowest *)
(* terms; the values the rate limiter and the retry delays compute are exact   *)
(* in floating point for the configurations drawn here.                        *)

Abs(n) == IF n < 0 THEN 0 - n ELSE n

RECURSIVE Gcd(_, _)
Gcd(a, b) == IF b = 0 THEN a ELSE Gcd(b, a % b)

Rat(n, d) ==
    LET Lowest(x, y) ==
            LET g == Gcd(Abs(x), Abs(y))
                sign == IF y < 0 THEN 0 - 1 ELSE 1
            IN  [num |-> sign * (x \div g), den |-> sign * (y \div g)]
    IN  CHOOSE r \in { Lowest(x, y) : x \in {n}, y \in {d} } : TRUE

RatOfInt(n) == [num |-> n, den |-> 1]

RatAdd(a, b) == Rat(a.num * b.den + b.num * a.den, a.den * b.den)

RatSub(a, b) == Rat(a.num * b.den - b.num * a.den, a.den * b.den)

RatMul(a, b) == Rat(a.num * b.num, a.den * b.den)

\* a / b for b # 0
RatDiv(a, b) == Rat(a.num * b.den, a.den * b.num)

RatLess(a, b) == a.num * b.den < b.num * a.den

RatLeq(a, b) == a.num * b.den <= b.num * a.den

\* min(a, b) of Python and math.min(a, b) of Lua
RatMin(a, b) == IF RatLess(b, a) THEN b ELSE a

\* a ** k for an integer k >= 0
RECURSIVE RatPow(_, _)
RatPow(a, k) == IF k = 0 THEN RatOfInt(1) ELSE RatMul(a, RatPow(a, k - 1))

\* The conversion of a number to an integer that drops its fraction.
RatTrunc(a) ==
    IF a.num >= 0 THEN a.num \div a.den ELSE 0 - ((0 - a.num) \div a.den)

----------------------------------------------------------------------------
(* Inputs of the sink *)

KeyA1 == <<"A", "-", "1">>
KeyA2 == <<"A", "-", "2">>
KeyB1 == <<"B", "-", "1">>
KeyNoDash == <<"X", "1">>
KeyNoPrefix == <<"-", "1">>
KeyBlank == <<"W", "-", "1">>

\* A project key of the payload that is whitespace only.
BlankProject == <<" ">>

Keys == {KeyA1, KeyA2, KeyB1, KeyNoDash, KeyNoPrefix, KeyBlank}

Times == 1..MaxTime

\* Issue.from_jira_api: the project of the payload, else the key's prefix when
\* the key holds a "-", else "".
FromJiraApiProject(payloadProject, key) ==
    IF payloadProject = <<>> /\ HasDash(key) THEN SplitFirst(key) ELSE payloadProject

\* The validated Issue items handed to the sink: key, project and fields.updated.
\* A-1 and B-1 carry their project; A-2, X1 and -1 come from payloads without
\* one; W-1 comes from a payload whose project key is " ".
Issues ==
    { [kind |-> "Issue", key |-> k, project |-> p, updated |-> FromTimestamp(t)] :
        k \in Keys, p \in {<<>>, <<"A">>, <<"B">>, BlankProject}, t \in Times }

ValidatedIssues ==
    { i \in Issues :
        \/ /\ i.key \in {KeyA1, KeyB1}
           /\ i.project = SplitFirst(i.key)
        \/ /\ i.key \in {KeyA2, KeyNoDash, KeyNoPrefix}
           /\ i.project = FromJiraApiProject(<<>>, i.key)
        \/ /\ i.key = KeyBlank
           /\ i.project = FromJiraApiProject(BlankProject, i.key) }

\* An item that is not an Issue (storage.py:54).
NotAnIssue == [kind |-> "dict", key |-> <<>>, project |-> <<>>, updated |-> FromTimestamp(1)]

NoItem == [kind |-> "none", key |-> <<>>, project |-> <<>>, updated |-> FromTimestamp(1)]

----------------------------------------------------------------------------
(* FileStateManager (src/src/utils/state.py) *)

\* The processed set: the tracked keys it holds and the number of other keys.
EmptyProcessed == [keys |-> {}, others |-> 0]

\* len(self._processed_issues)
ProcessedLen(ps) == Cardinality(ps.keys) + ps.others

\* A state file: absent, completely written ("ok") or cut short by a process
\* exit between open(..., "w") and the end of the dump ("torn").
AbsentFile == [state |-> "absent", data |-> <<>>]
TornFile == [state |-> "torn", data |-> <<>>]
OkFile(d) == [state |-> "ok", data |-> d]

\* _load_last_updates: {} when the file is absent or does not parse
LoadLastUpdates(file) == IF file.state = "ok" THEN file.data ELSE <<>>

\* Mutant of LoadProcessedIssues: reads a field the file does not hold.
LoadProcessedIssuesWrongField(file) == EmptyProcessed

\* _load_processed_issues: set() when the file is absent or does not parse
LoadProcessedIssues(file) == IF file.state = "ok" THEN file.data ELSE EmptyProcessed

\* _save_last_updates: the dump, or the file as it was on IOError (logged only)
SaveLastUpdates(lu, file, io) == IF io = "ok" THEN OkFile(lu) ELSE file

\* issues_list[-10000:] of list(set): set order is arbitrary, so any MAX_SAVED
\* of the entries may be the ones kept.
TruncatedLists(ps) ==
    IF ProcessedLen(ps) > MAX_SAVED
    THEN { [keys |-> S, others |-> MAX_SAVED - Cardinality(S)] :
             S \in { T \in SUBSET ps.keys : /\ MAX_SAVED - Cardinality(T) >= 0
                                            /\ MAX_SAVED - Cardinality(T) <= ps.others } }
    ELSE {ps}

\* _save_processed_issues: the files it may leave
SaveProcessedIssues(ps, file, io) ==
    IF io = "ok" THEN { OkFile(l) : l \in TruncatedLists(ps) } ELSE {file}

\* get_last_update: None ({}) when absent or falsy (0.0)
GetLastUpdate(lu, project) ==
    IF project \in DOMAIN lu /\ lu[project] # 0
    THEN {FromTimestamp(lu[project])}
    ELSE {}

\* Mutant of SkipsSetLastUpdate: only the empty project is skipped.
SkipsSetLastUpdateEmptyOnly(project) == project = <<>>

\* set_last_update skips an empty or whitespace-only project
SkipsSetLastUpdate(project) == project = <<>> \/ IsBlank(project)

\* Mutant of SetLastUpdate: keeps the newer of the stored and the given timestamp.
SetLastUpdateKeepMax(lu, project, timestamp) ==
    IF project = <<>> \/ IsBlank(project) THEN lu
    ELSE IF project \in DOMAIN lu /\ lu[project] >= Timestamp(timestamp) THEN lu
    ELSE (project :> Timestamp(timestamp)) @@ lu

\* set_last_update: the in-memory map after the call
SetLastUpdate(lu, project, timestamp) ==
    IF SkipsSetLastUpdate(project) THEN lu
    ELSE (project :> Timestamp(timestamp)) @@ lu

\* Mutant of IsDuplicate: the check never finds the key.
IsDuplicateNever(ps, issue_key) == FALSE

\* is_duplicate
IsDuplicate(ps, issue_key) == issue_key \in ps.keys

\* mark_processed: self._processed_issues.add(issue_key)
AddProcessed(ps, issue_key) == [ps EXCEPT !.keys = @ \cup {issue_key}]

\* mark_processed: the periodic save is due
SaveDue(ps) == ProcessedLen(ps) % SAVE_EVERY = 0

----------------------------------------------------------------------------
(* StoragePipeline (src/src/scraper/pipelines/storage.py) *)

\* Outcomes of s3_client.put_object: success, or the exception it raises.
\* EndpointConnectionError stands for botocore's connection-level errors, which
\* derive from BotoCoreError and not from ClientError.
PutOutcomes == {"ok", "NoCredentialsError", "ClientError", "EndpointConnectionError"}

\* Outcomes of _store_locally: success, or OSError from makedirs/open/dump.
LocalOutcomes == {"ok", "OSError"}

\* process_item lines 59-66: the project, or None ({}) when DropItem is raised
ResolveProject(i) ==
    IF i.project # <<>> THEN {i.project}
    ELSE IF HasDash(i.key) THEN {SplitFirst(i.key)}
    ELSE {}

\* the except clauses of lines 95-103: the failures answered by _store_locally
FallsBack(put) == put \in {"NoCredentialsError", "ClientError"}

\* Mutant of S3ClientAfter: the client is kept after NoCredentialsError.
S3ClientKept(client, put) == client

\* line 98: the client after put_object (TRUE: a client, FALSE: None)
S3ClientAfter(client, put) == IF put = "NoCredentialsError" THEN FALSE ELSE client

\* line 80: s3_key
S3Key(project, key) == <<"raw", project, key>>

\* _store_locally lines 127-133: local_path
LocalPath(i, dictProject) ==
    LET p == IF dictProject # <<>> THEN dictProject
             ELSE IF HasDash(i.key) THEN SplitFirst(i.key)
             ELSE <<"u", "n", "k", "n", "o", "w", "n">>
    IN  <<"data", "raw", p, i.key>>

----------------------------------------------------------------------------
(* State *)

VARIABLES
    \* StoragePipeline and its FileStateManager, one process
    s3_client,            \* TRUE: a boto3 client, FALSE: None
    processed_issues,     \* _processed_issues
    last_updates,         \* _last_updates: project -> timestamp
    issues_scraped_total, \* the counter, by project label
    pc,                   \* position in process_item: idle, write, mark, advance
    item,                 \* the item of the running or last call
    project,              \* its resolved project
    result,               \* how the last call ended
    \* stable storage
    processed_file,       \* data/state/processed_issues.json
    last_update_file,     \* data/state/last_updates.json
    durable,              \* keys with a completed write in S3 or on the local disk
    \* what the running or last call did
    put,                  \* put_object: "skipped", "unset" or its outcome
    loc,                  \* _store_locally: "unset" or its outcome
    wrote,                \* the paths it wrote
    pre,                  \* the item as given, last_updates, the counter and the
                          \* flags when it began
    \* what this process and its predecessors did
    writesProc,           \* durable writes per key by this process
    storedProc,           \* keys whose store completed as Stored in this process
    credFailed,           \* NoCredentialsError was raised in this process
    loaded                \* keys in the processed file when this process started

sinkVars ==
    << s3_client, processed_issues, last_updates, issues_scraped_total, pc, item,
       project, result, processed_file, last_update_file, durable, put, loc, wrote,
       pre, writesProc, storedProc, credFailed, loaded >>

VARIABLES
    \* JiraSpider and its own FileStateManager
    start_date,           \* the start_date argument
    max_issues,           \* the max_issues argument, 0 for None
    spider_last_updates,  \* _last_updates of the spider's state manager
    next_project,         \* position of start() in self.projects
    pending,              \* search requests yielded and not yet answered
    issue_requests,       \* per project, the number of issue requests yielded
    cursor,               \* per project, last_update as start() computed it
    consulted,            \* projects start() called get_last_update for
    last_page,            \* what parse_search_results found in the response it
                          \* was handed last
    handled_errors        \* the issue requests that ended in handle_error

spiderVars ==
    << start_date, max_issues, spider_last_updates, next_project, pending,
       issue_requests, cursor, consulted, last_page, handled_errors >>

\* The rate limiter (src/src/utils/redis.py) and its callers
VARIABLES
    rps,                  \* RedisRateLimiter.rps
    burst,                \* RedisRateLimiter.burst
    bucket,               \* per identifier, the Redis hash of its key
    clock,                \* the time, in seconds
    caller,               \* the position of the observed process in acquire
    grants,               \* per identifier, the script runs that returned {1, 0}
    evals                 \* per identifier, the script runs that returned

limiterVars == << rps, burst, bucket, clock, caller, grants, evals >>

\* The downloader middlewares (src/src/scraper/middlewares.py)
VARIABLES
    max_retry_times,      \* RetryMiddleware.max_retry_times (RETRY_TIMES)
    request,              \* the request of the call that is on its way
    phase,                \* where that request is
    sends,                \* the times the call's request went to the downloader
    failures,             \* the retryable responses and exceptions the call got
    prev_delay,           \* the download_delay of the reissue before the last
    directive_used,       \* a reissue of the call took its delay from Retry-After
    last_response,        \* the response process_response was handed last
    last_exception,       \* the exception process_exception was handed last
    failed_request        \* the request _retry was handed last, as _retry left it

downloaderVars ==
    << max_retry_times, request, phase, sends, failures, prev_delay,
       directive_used, last_response, last_exception, failed_request >>

\* The ValidationPipeline (src/src/scraper/pipelines/validation.py), and an
\* issue on its way from the pipeline to a file and back
VARIABLES
    strict_mode,          \* ValidationPipeline.strict_mode
    validation_errors,    \* the counter, per (project, error_type) label pair
    raw_item,             \* the item process_item was handed last
    validated,            \* what that call of process_item ended in
    errors_before,        \* validation_errors when that call began
    json_file,            \* the text the storage pipeline wrote for the item
    reread                \* what the corpus builder read out of json_file

validatorVars ==
    << strict_mode, validation_errors, raw_item, validated, errors_before,
       json_file, reread >>

\* Two processes, each with a FileStateManager of its own, on one data/state
VARIABLES
    managers,             \* per process: constructed or not, _last_updates and
                          \* _processed_issues
    state_files,          \* last_updates.json and processed_issues.json
    last_call             \* the call of a FileStateManager made last

sharedVars == << managers, state_files, last_call >>

netVars == << limiterVars, downloaderVars, validatorVars, sharedVars >>

vars == << sinkVars, spiderVars, netVars >>

Projects == {<<"A">>, <<"B">>}

NoCounts == [p \in {} |-> 0]

Count(counter, label) == IF label \in DOMAIN counter THEN counter[label] ELSE 0

\* Mutant of Inc: the counter is raised by two.
IncTwice(counter, label) == (label :> Count(counter, label) + 2) @@ counter

\* Counter.labels(project=...).inc()
Inc(counter, label) == (label :> Count(counter, label) + 1) @@ counter

Snapshot(i) ==
    [ given |-> i,
      last_updates |-> last_updates,
      counter |-> issues_scraped_total,
      wasStored |-> i.key \in storedProc,
      wasProcessed |-> i.key \in processed_issues.keys,
      credFailed |-> credFailed,
      afterBothFailed |-> (put \in {"NoCredentialsError", "ClientError"}
                           /\ loc = "OSError") ]

\* StoragePipeline.__init__ in a process that finds the state files as they are:
\* _init_s3 leaves a client, or None when creating it raised.
NewProcess(client, pfile, ufile) ==
    /\ s3_client' = client
    /\ processed_file' = pfile
    /\ last_update_file' = ufile
    /\ processed_issues' = LoadProcessedIssues(pfile)
    /\ last_updates' = LoadLastUpdates(ufile)
    /\ issues_scraped_total' = NoCounts
    /\ pc' = "idle"
    /\ item' = NoItem
    /\ project' = <<>>
    /\ result' = "none"
    /\ put' = "unset"
    /\ loc' = "unset"
    /\ wrote' = {}
    /\ pre' = [ given |-> NoItem, last_updates |-> LoadLastUpdates(ufile),
                counter |-> NoCounts, wasStored |-> FALSE, wasProcessed |-> FALSE,
                credFailed |-> FALSE, afterBothFailed |-> FALSE ]
    /\ writesProc' = [k \in Keys |-> 0]
    /\ storedProc' = {}
    /\ credFailed' = FALSE
    /\ loaded' = IF pfile.state = "ok" THEN pfile.data.keys ELSE {}
    /\ UNCHANGED durable
    /\ UNCHANGED << spiderVars, netVars >>

\* The identifier acquire is called with: a project key.  The keys of other
\* identifiers are other Redis keys (redis.py:58).
Identifiers == {<<"A">>}

\* A key Redis does not hold.
NoKey == [exists |-> FALSE, tokens |-> {}, last_refill |-> {}, expires |-> 0]

IdleCaller ==
    [ pc |-> "idle", identifier |-> <<>>, wait |-> FALSE, outer_wait |-> FALSE,
      now |-> 0, wake_at |-> 0, ret |-> "none", outcomes |-> <<>>,
      wait_time |-> {}, touched |-> FALSE, late |-> FALSE ]

\* No rate limiter is at work.
LimiterIdle ==
    /\ rps = RatOfInt(0)
    /\ burst = 1
    /\ bucket = [id \in Identifiers |-> NoKey]
    /\ clock = 0
    /\ caller = IdleCaller
    /\ grants = [id \in Identifiers |-> 0]
    /\ evals = [id \in Identifiers |-> 0]

NoRequest ==
    [ kind |-> "none", project |-> <<>>, retry_times |-> 0, download_delay |-> {},
      dont_filter |-> FALSE ]

\* A Retry-After header: absent, an HTTP date, or a number of seconds.
NoHeader == [form |-> "absent", seconds |-> RatOfInt(0)]

NoResponse == [status |-> 0, retry_after |-> NoHeader]

\* No request is on its way.
DownloaderIdle ==
    /\ max_retry_times = 0
    /\ request = NoRequest
    /\ phase = "none"
    /\ sends = 0
    /\ failures = 0
    /\ prev_delay = {}
    /\ directive_used = FALSE
    /\ last_response = NoResponse
    /\ last_exception = "none"
    /\ failed_request = NoRequest

\* The values of JSON and of Python that an item is made of, each with its type.
Absent == [t |-> "absent"]

Null == [t |-> "null"]

Text(s) == [t |-> "str", s |-> s]

\* A string that spells a time: as Jira writes it ("2024-01-15T10:30:00.000+0000"),
\* as str(datetime) writes it ("2024-01-15 10:30:00+00:00"), or not a time.
TimeText(form, dt) == [t |-> "str", form |-> form, dt |-> dt]

Datetime(dt) == [t |-> "datetime", dt |-> dt]

Dict(d) == [t |-> "dict", d |-> d]

List(l) == [t |-> "list", l |-> l]

EmptyDict == Dict([k \in {} |-> Null])

\* What a call ended in: a value returned, or an exception raised.
Returned(v) == [kind |-> "returned", value |-> v, error |-> "none"]

Raised(e) == [kind |-> "raised", value |-> Null, error |-> e]

NotCalled == [kind |-> "none", value |-> Null, error |-> "none"]

NoFile == [dir |-> <<>>, data |-> Absent]

\* No item went through the pipeline.
ValidatorIdle ==
    /\ strict_mode = FALSE
    /\ validation_errors = NoCounts
    /\ raw_item = Null
    /\ validated = NotCalled
    /\ errors_before = NoCounts
    /\ json_file = NoFile
    /\ reread = NotCalled

Processes == {1, 2}

NoCall == [process |-> 0, op |-> "none", arg |-> <<>>]

NotConstructed ==
    [constructed |-> FALSE, last_updates |-> <<>>, processed_issues |-> EmptyProcessed]

\* No FileStateManager beside the one of the storage pipeline.
SharedIdle ==
    /\ managers = [w \in Processes |-> NotConstructed]
    /\ state_files = [last_updates |-> AbsentFile, processed_issues |-> AbsentFile]
    /\ last_call = NoCall

NetIdle == LimiterIdle /\ DownloaderIdle /\ ValidatorIdle /\ SharedIdle

SinkFresh ==
    /\ processed_issues = EmptyProcessed
    /\ last_updates = <<>>
    /\ issues_scraped_total = NoCounts
    /\ pc = "idle"
    /\ item = NoItem
    /\ project = <<>>
    /\ result = "none"
    /\ processed_file = AbsentFile
    /\ last_update_file = AbsentFile
    /\ durable = {}
    /\ put = "unset"
    /\ loc = "unset"
    /\ wrote = {}
    /\ pre = [ given |-> NoItem, last_updates |-> <<>>, counter |-> NoCounts,
               wasStored |-> FALSE, wasProcessed |-> FALSE, credFailed |-> FALSE,
               afterBothFailed |-> FALSE ]
    /\ writesProc = [k \in Keys |-> 0]
    /\ storedProc = {}
    /\ credFailed = FALSE
    /\ loaded = {}

\* The spider is not part of the sink's runs.
\* parse_search_results was not called yet.
NoPage == [called |-> FALSE]

SpiderIdle ==
    /\ start_date = [given |-> FALSE, wellFormed |-> FALSE, day |-> 0]
    /\ max_issues = 0
    /\ spider_last_updates = <<>>
    /\ next_project = 1
    /\ pending = {}
    /\ issue_requests = [p \in Projects |-> 0]
    /\ cursor = [p \in Projects |-> {}]
    /\ consulted = {}
    /\ last_page = NoPage
    /\ handled_errors = 0

SinkInit ==
    /\ s3_client \in BOOLEAN
    /\ SinkFresh

Init ==
    /\ SinkInit
    /\ SpiderIdle
    /\ NetIdle

----------------------------------------------------------------------------
(* StoragePipeline.process_item, step by step.  The steps of one call follow   *)
(* each other without interleaving (one reactor thread); only a process exit   *)
(* can fall between them.                                                      *)

\* lines 85-106: _store_locally runs when there is no client or after a failure
\* that one of the except clauses catches
LocalAttempted(client, p) == ~client \/ FallsBack(p)

\* lines 88-94: put_object returned
PrimaryDone(p) == p = "ok"

\* Mutant of LocalDone: _store_locally swallows its OSError.
LocalDoneAlways(l) == TRUE

\* lines 100, 103, 106: _store_locally returned; it catches nothing, so an
\* OSError leaves process_item
LocalDone(l) == l = "ok"

\* Mutant of WriteSucceeded: every exception of the write is swallowed.
WriteSucceededAlways(p, l) == TRUE

\* lines 85-106 end without an exception
WriteSucceeded(p, l) == PrimaryDone(p) \/ LocalDone(l)

\* Mutant of ItemAfterResolve: an empty project is replaced by "unknown", as
\* _store_locally does for its path.
ItemAfterResolveUnknown(i, p) ==
    [i EXCEPT !.project = IF @ = <<>> THEN <<"unknown">> ELSE @]

\* lines 69-70: the item after "if not item.project: item.project = project"
ItemAfterResolve(i, p) == [i EXCEPT !.project = IF @ = <<>> THEN p ELSE @]

\* lines 54-77: type check, project resolution, duplicate check
Begin(i) ==
    /\ pc = "idle"
    /\ pre' = Snapshot(i)
    /\ put' = "unset"
    /\ loc' = "unset"
    /\ wrote' = {}
    /\ IF i.kind # "Issue"
       THEN /\ item' = i
            /\ project' = <<>>
            /\ result' = "NotIssue"
            /\ pc' = "idle"
       ELSE IF ResolveProject(i) = {}
       THEN /\ item' = i
            /\ project' = <<>>
            /\ result' = "MissingProject"
            /\ pc' = "idle"
       ELSE LET p == CHOOSE x \in ResolveProject(i) : TRUE
            IN  /\ item' = ItemAfterResolve(i, p)
                /\ project' = p
                /\ IF IsDuplicate(processed_issues, i.key)
                   THEN /\ result' = "Duplicate"
                        /\ pc' = "idle"
                   ELSE /\ result' = "running"
                        /\ pc' = "write"
    /\ UNCHANGED << s3_client, processed_issues, last_updates, issues_scraped_total,
                    processed_file, last_update_file, durable, writesProc,
                    storedProc, credFailed, loaded >>
    /\ UNCHANGED << spiderVars, netVars >>

\* lines 79-106: the write to S3, to the local disk, or to both in turn
Write(p, l) ==
    /\ pc = "write"
    /\ put' = IF s3_client THEN p ELSE "skipped"
    /\ loc' = IF LocalAttempted(s3_client, put') THEN l ELSE "unset"
    /\ s3_client' = IF s3_client THEN S3ClientAfter(s3_client, p) ELSE s3_client
    /\ credFailed' = (credFailed \/ put' = "NoCredentialsError")
    /\ wrote' = (IF put' = "ok" THEN {S3Key(project, item.key)} ELSE {})
                \cup (IF loc' = "ok" THEN {LocalPath(item, project)} ELSE {})
    /\ durable' = IF wrote' # {} THEN durable \cup {item.key} ELSE durable
    /\ writesProc' = [writesProc EXCEPT ![item.key] = @ + Cardinality(wrote')]
    /\ IF WriteSucceeded(put', loc')
       THEN /\ pc' = "mark"
            /\ result' = "running"
       ELSE /\ pc' = "idle"
            /\ result' = "WriteError"
    /\ UNCHANGED << processed_issues, last_updates, issues_scraped_total, item,
                    project, processed_file, last_update_file, pre, storedProc,
                    loaded >>
    /\ UNCHANGED << spiderVars, netVars >>

\* line 109: mark_processed, with its save every SAVE_EVERY entries
Mark(io) ==
    /\ pc = "mark"
    /\ processed_issues' = AddProcessed(processed_issues, item.key)
    /\ IF SaveDue(processed_issues')
       THEN processed_file' \in SaveProcessedIssues(processed_issues', processed_file, io)
       ELSE /\ io = "ok"
            /\ UNCHANGED processed_file
    /\ pc' = "advance"
    /\ UNCHANGED << s3_client, last_updates, issues_scraped_total, item, project,
                    result, last_update_file, durable, put, loc, wrote, pre,
                    writesProc, storedProc, credFailed, loaded >>
    /\ UNCHANGED << spiderVars, netVars >>

\* lines 112-120: set_last_update with its save, the counter, return item
Advance(io) ==
    /\ pc = "advance"
    /\ last_updates' = SetLastUpdate(last_updates, project, item.updated)
    /\ IF SkipsSetLastUpdate(project)
       THEN /\ io = "ok"
            /\ UNCHANGED last_update_file
       ELSE last_update_file' = SaveLastUpdates(last_updates', last_update_file, io)
    /\ issues_scraped_total' = Inc(issues_scraped_total, project)
    /\ result' = "Stored"
    /\ pc' = "idle"
    /\ storedProc' = storedProc \cup {item.key}
    /\ UNCHANGED << s3_client, processed_issues, item, project, processed_file,
                    durable, put, loc, wrote, pre, writesProc, credFailed, loaded >>
    /\ UNCHANGED << spiderVars, netVars >>

\* mark_processed for n records outside the tracked keys, one after the other:
\* the set grows by n, and the file is rewritten at every multiple of SAVE_EVERY
\* the length passes, so it ends as the save at the last such multiple left it.
LastSaveLen(ps, n) == ((ProcessedLen(ps) + n) \div SAVE_EVERY) * SAVE_EVERY

MarkOthers(ps, file, n) ==
    LET m == LastSaveLen(ps, n)
        atSave == [ps EXCEPT !.others = m - Cardinality(ps.keys)]
    IN  { [ps |-> [ps EXCEPT !.others = @ + n], file |-> f] :
            f \in IF m > ProcessedLen(ps)
                  THEN SaveProcessedIssues(atSave, file, "ok")
                  ELSE {file} }

\* A run of OtherBatch complete process_item calls for records outside the
\* tracked keys and projects.
StoreOthersUpTo(limit) ==
    /\ pc = "idle"
    /\ processed_issues.others + OtherBatch <= limit
    /\ \E r \in MarkOthers(processed_issues, processed_file, OtherBatch) :
           /\ processed_issues' = r.ps
           /\ processed_file' = r.file
    /\ UNCHANGED << s3_client, last_updates, issues_scraped_total, pc, item, project,
                    result, last_update_file, durable, put, loc, wrote, pre,
                    writesProc, storedProc, credFailed, loaded >>
    /\ UNCHANGED << spiderVars, netVars >>

StoreOthers == StoreOthersUpTo(MaxOther)

\* The process exits between two steps and a new one starts on the same files.
Exit(client) ==
    /\ pc \in {"idle", "write", "mark", "advance"}
    /\ NewProcess(client, processed_file, last_update_file)

\* The process exits inside _save_processed_issues, after open(..., "w").
ExitInSaveProcessed(client) ==
    /\ pc = "mark"
    /\ SaveDue(AddProcessed(processed_issues, item.key))
    /\ NewProcess(client, TornFile, last_update_file)

\* The process exits inside _save_last_updates, after open(..., "w").
ExitInSaveLastUpdates(client) ==
    /\ pc = "advance"
    /\ ~SkipsSetLastUpdate(project)
    /\ NewProcess(client, processed_file, TornFile)

IoOutcomes == {"ok", "IOError"}

\* The items the sink is handed: the validated issues of the well-formed keys
\* (two records of project A at any update time, one record of project B, one
\* record whose project is whitespace only) and an item that is no Issue.
SinkItems ==
    { i \in ValidatedIssues :
        \/ i.key \in {KeyA1, KeyA2}
        \/ i.key \in {KeyB1, KeyBlank} /\ Timestamp(i.updated) = 1 }
    \cup {NotAnIssue}

Next ==
    \/ \E i \in SinkItems : Begin(i)
    \/ \E p \in PutOutcomes, l \in LocalOutcomes : Write(p, l)
    \/ \E io \in IoOutcomes : Mark(io)
    \/ \E io \in IoOutcomes : Advance(io)
    \/ StoreOthers
    \/ \E c \in BOOLEAN : Exit(c)
    \/ \E c \in BOOLEAN : ExitInSaveProcessed(c)
    \/ \E c \in BOOLEAN : ExitInSaveLastUpdates(c)

Spec == Init /\ [][Next]_vars

\* The sink handed, next to one record that carries its project, the issues
\* whose payload has no project: of a well-formed key, of a key without a "-"
\* and of a key with nothing before its "-".
KeyItems ==
    { i \in ValidatedIssues :
        \/ i.key \in {KeyA2, KeyNoDash, KeyNoPrefix}
        \/ i.key = KeyA1 /\ Timestamp(i.updated) = 1 }
    \cup {NotAnIssue}

NextKeys ==
    \/ \E i \in KeyItems : Begin(i)
    \/ \E p \in PutOutcomes, l \in LocalOutcomes : Write(p, l)
    \/ \E io \in IoOutcomes : Mark(io)
    \/ \E io \in IoOutcomes : Advance(io)
    \/ StoreOthers
    \/ \E c \in BOOLEAN : Exit(c)
    \/ \E c \in BOOLEAN : ExitInSaveProcessed(c)
    \/ \E c \in BOOLEAN : ExitInSaveLastUpdates(c)

SpecKeys == Init /\ [][NextKeys]_vars

\* The processed file as a save at MAX_SAVED entries left it: none of them is
\* one of the tracked keys.
FullFile == OkFile([keys |-> {}, others |-> MAX_SAVED])

\* A process that started on the full processed file.
FullInit ==
    /\ s3_client = TRUE
    /\ processed_issues = LoadProcessedIssues(FullFile)
    /\ last_updates = <<>>
    /\ issues_scraped_total = NoCounts
    /\ pc = "idle"
    /\ item = NoItem
    /\ project = <<>>
    /\ result = "none"
    /\ processed_file = FullFile
    /\ last_update_file = AbsentFile
    /\ durable = {}
    /\ put = "unset"
    /\ loc = "unset"
    /\ wrote = {}
    /\ pre = [ given |-> NoItem, last_updates |-> <<>>, counter |-> NoCounts,
               wasStored |-> FALSE, wasProcessed |-> FALSE, credFailed |-> FALSE,
               afterBothFailed |-> FALSE ]
    /\ writesProc = [k \in Keys |-> 0]
    /\ storedProc = {}
    /\ credFailed = FALSE
    /\ loaded = {}
    /\ SpiderIdle
    /\ NetIdle

\* The records stored on top of the full set: three tracked keys, marked in
\* any order, and runs of other records.
FullItems ==
    { i \in ValidatedIssues : i.key \in {KeyA1, KeyA2, KeyB1} /\ Timestamp(i.updated) = 1 }

StoreOthersFull == StoreOthersUpTo(MAX_SAVED + MaxOther)

NextFull ==
    \/ \E i \in FullItems : Begin(i)
    \/ \E p \in PutOutcomes, l \in LocalOutcomes : Write(p, l)
    \/ \E io \in IoOutcomes : Mark(io)
    \/ \E io \in IoOutcomes : Advance(io)
    \/ StoreOthersFull
    \/ \E c \in BOOLEAN : Exit(c)

SpecFull == FullInit /\ [][NextFull]_vars

----------------------------------------------------------------------------
(* One FileStateManager (src/src/utils/state.py) called directly, as the       *)
(* storage pipeline and the spider call it.                                    *)

\* The parts of the sink's state that belong to the storage pipeline itself.
pipelineVars ==
    << s3_client, issues_scraped_total, pc, item, project, result, durable, put,
       loc, wrote, pre, writesProc, storedProc, credFailed >>

\* The project arguments of set_last_update: "", " " and the project keys.
ProjectArguments == {<<>>, BlankProject} \cup Projects

\* lines 89-103: set_last_update(project, timestamp); an IOError of the save is
\* logged and the call returns
SetLastUpdateCall(p, t, io) ==
    /\ last_updates' = SetLastUpdate(last_updates, p, t)
    /\ IF SkipsSetLastUpdate(p)
       THEN /\ io = "ok"
            /\ UNCHANGED last_update_file
       ELSE last_update_file' = SaveLastUpdates(last_updates', last_update_file, io)
    /\ last_call' = [process |-> 1, op |-> "set_last_update", arg |-> p]
    /\ UNCHANGED << processed_issues, processed_file, loaded, pipelineVars >>
    /\ UNCHANGED << managers, state_files >>
    /\ UNCHANGED << spiderVars, limiterVars, downloaderVars, validatorVars >>

\* lines 116-125: mark_processed(issue_key)
MarkProcessedCall(k, io) ==
    /\ processed_issues' = AddProcessed(processed_issues, k)
    /\ IF SaveDue(processed_issues')
       THEN processed_file' \in SaveProcessedIssues(processed_issues', processed_file, io)
       ELSE /\ io = "ok"
            /\ UNCHANGED processed_file
    /\ last_call' = [process |-> 1, op |-> "mark_processed", arg |-> k]
    /\ UNCHANGED << last_updates, last_update_file, loaded, pipelineVars >>
    /\ UNCHANGED << managers, state_files >>
    /\ UNCHANGED << spiderVars, limiterVars, downloaderVars, validatorVars >>

\* lines 17-28: __init__ of the manager of the next process, on the files as the
\* process before it left them
NewManager(pfile, ufile) ==
    /\ processed_file' = pfile
    /\ last_update_file' = ufile
    /\ processed_issues' = LoadProcessedIssues(pfile)
    /\ last_updates' = LoadLastUpdates(ufile)
    /\ loaded' = LoadProcessedIssues(pfile).keys
    /\ last_call' = [process |-> 1, op |-> "__init__", arg |-> <<>>]
    /\ UNCHANGED pipelineVars
    /\ UNCHANGED << managers, state_files >>
    /\ UNCHANGED << spiderVars, limiterVars, downloaderVars, validatorVars >>

\* The process exits between two calls.
ExitBetweenCalls == NewManager(processed_file, last_update_file)

\* The process exits inside the _save_last_updates of set_last_update(p, t),
\* after open(..., "w") has emptied the file and before the dump is complete.
ExitInSetLastUpdate(p) ==
    /\ ~SkipsSetLastUpdate(p)
    /\ NewManager(processed_file, TornFile)

StateInit ==
    /\ s3_client = FALSE
    /\ SinkFresh
    /\ SpiderIdle
    /\ NetIdle

StateNext ==
    \/ \E p \in ProjectArguments, t \in Times, io \in IoOutcomes :
           SetLastUpdateCall(p, FromTimestamp(t), io)
    \/ \E k \in {KeyA1, KeyB1}, io \in IoOutcomes : MarkProcessedCall(k, io)
    \/ ExitBetweenCalls
    \/ \E p \in ProjectArguments : ExitInSetLastUpdate(p)

SpecState == StateInit /\ [][StateNext]_vars

----------------------------------------------------------------------------
(* JiraSpider (src/src/scraper/spider.py) *)

\* The sum of f over S.
RECURSIVE SumOver(_, _)
SumOver(f, S) ==
    IF S = {} THEN 0
    ELSE LET x == CHOOSE y \in S : TRUE IN f[x] + SumOver(f, S \ {x})

\* self.projects
ProjectList == << <<"A">>, <<"B">> >>

\* datetime.strptime(self.start_date, "%Y-%m-%d"): midnight of that day
Strptime(day) == [day |-> day, tick |-> 0]

\* datetime.now() - timedelta(days=30)
NowMinusDefault == [day |-> NowDay - DEFAULT_DAYS, tick |-> 0]

\* Mutant of StartCursor: the checkpoint is read first and start_date only
\* when there is none.
StartCursorCheckpointFirst(sd, lu, p) ==
    IF GetLastUpdate(lu, p) # {} THEN GetLastUpdate(lu, p)
    ELSE IF sd.given
    THEN IF sd.wellFormed THEN {[day |-> sd.day, tick |-> 0]}
         ELSE {[day |-> NowDay - DEFAULT_DAYS, tick |-> 0]}
    ELSE {}

\* start lines 52-63: last_update, None as {}
StartCursor(sd, lu, p) ==
    LET fromState == IF ~sd.given THEN GetLastUpdate(lu, p) ELSE {}
    IN  IF fromState = {} /\ sd.given
        THEN IF sd.wellFormed THEN {Strptime(sd.day)} ELSE {NowMinusDefault}
        ELSE fromState

\* _build_jql: the project and the day of the 'updated >=' clause, {} without one
BuildJql(p, updated_since) ==
    [project |-> p, since |-> { Strftime(dt) : dt \in updated_since }]

\* _build_search_url and the Request around it
SearchRequest(jql, start_at, max_results) ==
    [project |-> jql.project, since |-> jql.since, start_at |-> start_at,
     max_results |-> max_results]

\* parse_search_results line 212: the jql of the next page
NextPageJql(p) == BuildJql(p, {})

\* start: the request for the next project of self.projects
Start ==
    /\ next_project <= Len(ProjectList)
    /\ LET p == ProjectList[next_project]
           last_update == StartCursor(start_date, spider_last_updates, p)
           req == SearchRequest(BuildJql(p, last_update), 0, DEFAULT_MAX_RESULTS)
       IN  /\ cursor' = [cursor EXCEPT ![p] = last_update]
           /\ consulted' = IF ~start_date.given THEN consulted \cup {p} ELSE consulted
           /\ pending' = pending \cup {req}
    /\ next_project' = next_project + 1
    /\ UNCHANGED << start_date, max_issues, spider_last_updates, issue_requests,
                    last_page, handled_errors >>
    /\ UNCHANGED << sinkVars, netVars >>

\* A search response: status, whether the body parses, and of a body that is
\* read the number of issues with a key, the number without, total and maxResults.
SearchResponses ==
    { r \in [ status : {200, 404},
              parses : BOOLEAN,
              keyed : 0..MaxPageItems,
              unkeyed : 0..1,
              total : 0..MaxTotal,
              maxResults : {{}, {MaxPageItems}} ] :
        /\ r.keyed + r.unkeyed <= MaxPageItems
        /\ r.status # 200 => r.parses
        /\ (r.status # 200 \/ ~r.parses) =>
               (r.keyed = 0 /\ r.unkeyed = 0 /\ r.total = 0 /\ r.maxResults = {}) }

\* data.get("maxResults", 50)
AdvertisedMaxResults(resp) ==
    IF resp.maxResults = {} THEN DEFAULT_MAX_RESULTS
    ELSE CHOOSE n \in resp.maxResults : TRUE

\* parse_search_results lines 203-220: the next search request, {} when none
NextPage(req, resp, limit) ==
    LET next_start_at == req.start_at + resp.keyed + resp.unkeyed
    IN  IF limit # 0 /\ next_start_at >= limit THEN {}
        ELSE IF next_start_at < resp.total
        THEN {SearchRequest(NextPageJql(req.project), next_start_at,
                            AdvertisedMaxResults(resp))}
        ELSE {}

\* Mutant of AfterFailedPage: the request stays.
AfterFailedPageReissued(req) == pending

\* parse_search_results lines 162-178: the callback returns, and the request
\* is answered
AfterFailedPage(req) == pending \ {req}

\* Mutant of IssueRequestsOf: a request for every issue of the page.
IssueRequestsOfAll(resp) == resp.keyed + resp.unkeyed

\* parse_search_results lines 192-201: the issue requests yielded for a page
IssueRequestsOf(resp) == resp.keyed

\* parse_search_results, the callback of an answered search request
ParseSearchResults(req, resp) ==
    /\ req \in pending
    /\ last_page' = [ called |-> TRUE, project |-> req.project,
                      start_at |-> req.start_at,
                      read |-> (resp.status = 200 /\ resp.parses),
                      issues |-> resp.keyed + resp.unkeyed,
                      keyed |-> resp.keyed, total |-> resp.total ]
    /\ IF resp.status # 200 \/ ~resp.parses
       THEN /\ pending' = AfterFailedPage(req)
            /\ UNCHANGED issue_requests
       ELSE /\ issue_requests' =
                [issue_requests EXCEPT ![req.project] = @ + IssueRequestsOf(resp)]
            /\ pending' = (pending \ {req}) \cup NextPage(req, resp, max_issues)
    /\ UNCHANGED << start_date, max_issues, spider_last_updates, next_project,
                    cursor, consulted, handled_errors >>
    /\ UNCHANGED << sinkVars, netVars >>

\* handle_error lines 238-244: the errback of an issue request that failed
HandleError ==
    /\ handled_errors < MaxHandledErrors
    /\ handled_errors < SumOver(issue_requests, Projects)
    /\ handled_errors' = handled_errors + 1
    /\ UNCHANGED << start_date, max_issues, spider_last_updates, next_project,
                    pending, issue_requests, cursor, consulted, last_page >>
    /\ UNCHANGED << sinkVars, netVars >>

StartDates ==
    {[given |-> FALSE, wellFormed |-> FALSE, day |-> 0]}
    \cup [given : {TRUE}, wellFormed : BOOLEAN, day : 0..(MaxTime \div TicksPerDay)]

\* The checkpoint files the sink's runs can leave.
CheckpointMaps ==
    UNION { [D -> Times] : D \in SUBSET Projects }

CheckpointFiles == {AbsentFile, TornFile} \cup { OkFile(m) : m \in CheckpointMaps }

\* JiraSpider.__init__ with its arguments, on the checkpoint file it finds.
SpiderInit ==
    /\ s3_client = FALSE
    /\ SinkFresh
    /\ start_date \in StartDates
    /\ max_issues \in 0..MaxPageItems
    /\ \E f \in CheckpointFiles : spider_last_updates = LoadLastUpdates(f)
    /\ next_project = 1
    /\ pending = {}
    /\ issue_requests = [p \in Projects |-> 0]
    /\ cursor = [p \in Projects |-> {}]
    /\ consulted = {}
    /\ last_page = NoPage
    /\ handled_errors = 0
    /\ NetIdle

SpiderNext ==
    \/ Start
    \/ HandleError
    \/ \E req \in pending, resp \in SearchResponses : ParseSearchResults(req, resp)

SpecSpider == SpiderInit /\ [][SpiderNext]_vars

----------------------------------------------------------------------------
(* RedisRateLimiter (src/src/utils/redis.py) *)

\* The rps a limiter is built with: 0, and rates below, at and above one
\* request per second.
RpsChoices == {RatOfInt(0), Rat(1, 2), RatOfInt(1), RatOfInt(2)}

\* line 54: self.tokens_per_second = 1.0 / rps if rps > 0 else 0
TokensPerSecond(r) ==
    IF RatLess(RatOfInt(0), r) THEN RatDiv(RatOfInt(1), r) ELSE RatOfInt(0)

\* The key as the server holds it at time t: gone once its EXPIRE has run out.
Live(b, t) == IF b.exists /\ t < b.expires THEN b ELSE NoKey

\* Mutant of Decrement: the script grants without taking the token.
DecrementNothing(tokens) == tokens

\* line 91: new_tokens = new_tokens - 1.0
Decrement(tokens) == RatSub(tokens, RatOfInt(1))

\* Mutant of NewTokens: the refill without its ceiling.
NewTokensUncapped(b, now, tokens_per_second, burst_) ==
    LET tokens == IF b.tokens = {} THEN RatOfInt(burst_)
                  ELSE CHOOSE t \in b.tokens : TRUE
        last_refill == IF b.last_refill = {} THEN now
                       ELSE CHOOSE t \in b.last_refill : TRUE
        elapsed == now - last_refill
    IN  RatAdd(tokens, RatMul(RatOfInt(elapsed), tokens_per_second))

\* lines 83-88: the tokens the script finds after its refill
NewTokens(b, now, tokens_per_second, burst_) ==
    LET tokens == IF b.tokens = {} THEN RatOfInt(burst_)
                  ELSE CHOOSE t \in b.tokens : TRUE
        last_refill == IF b.last_refill = {} THEN now
                       ELSE CHOOSE t \in b.last_refill : TRUE
        elapsed == now - last_refill
    IN  RatMin(RatOfInt(burst_),
               RatAdd(tokens, RatMul(RatOfInt(elapsed), tokens_per_second)))

\* What a Lua number out of the range of the integers is converted to.
UndefinedInteger == {0 - 1, 0, 1}

\* line 98 and the reply of EVAL: wait_time is a Lua number, and a Lua number is
\* returned as an integer, without its fraction; a division by 0 gives inf,
\* whose conversion is undefined.
WaitTimeReplies(new_tokens, tokens_per_second) ==
    IF tokens_per_second = RatOfInt(0) THEN UndefinedInteger
    ELSE {RatTrunc(RatDiv(RatSub(RatOfInt(1), new_tokens), tokens_per_second))}

\* lines 76-101: the Lua script, run by the server in one step at time t with
\* the now of its caller.  It gives the key it leaves and its possible replies.
Script(b0, t, now, tokens_per_second, burst_) ==
    LET b == Live(b0, t)
        new_tokens == NewTokens(b, now, tokens_per_second, burst_)
    IN  IF RatLeq(RatOfInt(1), new_tokens)
        THEN [ acquired |-> TRUE,
               wait_times |-> {0},
               key |-> [ exists |-> TRUE, tokens |-> {Decrement(new_tokens)},
                         last_refill |-> {now}, expires |-> t + EXPIRE_SECONDS ] ]
        ELSE [ acquired |-> FALSE,
               wait_times |-> WaitTimeReplies(new_tokens, tokens_per_second),
               key |-> [ exists |-> TRUE, tokens |-> b.tokens,
                         last_refill |-> {now}, expires |-> t + EXPIRE_SECONDS ] ]

\* The script runs at time t with a now that is earlier than the last_refill the
\* key holds: another process, which read the time later, ran its script first.
RanLate(b0, t, now) == \E l \in Live(b0, t).last_refill : now < l

\* What self.redis.eval does: it returns the reply, raises before the script
\* ran (ConnectionError) or raises after it ran (TimeoutError on the reply).
RedisOutcomes == {"ok", "ConnectionError", "TimeoutError"}

\* Mutant of FailOpen: a store error is answered with "not granted".
FailClosed(outcome) == "False"

\* lines 128-131: except RedisError: return True
FailOpen(outcome) == "True"

\* The script runs so far.
TotalEvals == SumOver(evals, Identifiers)

\* lines 70-73: acquire(identifier, wait) is called and reads the time
CallAcquire(id, w) ==
    /\ caller.pc = "idle"
    /\ TotalEvals < MaxEvals
    /\ caller' = [ IdleCaller EXCEPT !.pc = "eval", !.identifier = id,
                                     !.wait = w, !.outer_wait = w, !.now = clock ]
    /\ UNCHANGED << rps, burst, bucket, clock, grants, evals >>
    /\ UNCHANGED << sinkVars, spiderVars, downloaderVars, validatorVars, sharedVars >>

\* lines 103-131: self.redis.eval and what acquire does with its result
Eval(outcome) ==
    LET id == caller.identifier
        run == Script(bucket[id], clock, caller.now, TokensPerSecond(rps), burst)
        ran == outcome # "ConnectionError"
        late == ran /\ RanLate(bucket[id], clock, caller.now)
    IN  /\ caller.pc = "eval"
        /\ bucket' = IF ran THEN [bucket EXCEPT ![id] = run.key] ELSE bucket
        /\ evals' = IF ran THEN [evals EXCEPT ![id] = @ + 1] ELSE evals
        /\ grants' = IF ran /\ run.acquired THEN [grants EXCEPT ![id] = @ + 1]
                     ELSE grants
        /\ IF outcome # "ok"
           THEN caller' = [caller EXCEPT !.pc = "idle", !.ret = FailOpen(outcome),
                                         !.now = 0, !.wake_at = 0, !.late = late,
                                         !.outcomes = Append(@, "RedisError")]
           ELSE IF run.acquired
           THEN caller' = [caller EXCEPT !.pc = "idle", !.ret = "True",
                                         !.now = 0, !.wake_at = 0, !.late = late,
                                         !.outcomes = Append(@, "granted")]
           ELSE \E wait_time \in run.wait_times :
                  caller' =
                    IF caller.wait /\ wait_time > 0
                    THEN [caller EXCEPT !.pc = "sleeping", !.late = late,
                                        !.wake_at = clock + wait_time,
                                        !.wait_time = {wait_time},
                                        !.outcomes = Append(@, "empty")]
                    ELSE [caller EXCEPT !.pc = "idle", !.ret = "False",
                                        !.now = 0, !.wake_at = 0, !.late = late,
                                        !.wait_time = IF @ = {} THEN {wait_time} ELSE @,
                                        !.outcomes = Append(@, "empty")]
        /\ UNCHANGED << rps, burst, clock >>
        /\ UNCHANGED << sinkVars, spiderVars, downloaderVars, validatorVars, sharedVars >>

\* lines 122-124: time.sleep(wait_time) is over; self.acquire(identifier,
\* wait=False) reads the time
Wake ==
    /\ caller.pc = "sleeping"
    /\ clock >= caller.wake_at
    /\ caller' = [caller EXCEPT !.pc = "eval", !.wait = FALSE, !.now = clock]
    /\ UNCHANGED << rps, burst, bucket, clock, grants, evals >>
    /\ UNCHANGED << sinkVars, spiderVars, downloaderVars, validatorVars, sharedVars >>

\* How long before its script runs another process may have read the time at
\* line 73: within this second, or within the one before.
Lags == {0, 1}

\* The observed process is between the first script run of a call on id and
\* the retry of that call.
Waiting(id) ==
    /\ caller.identifier = id
    /\ caller.pc \in {"sleeping", "eval"}
    /\ Len(caller.outcomes) = 1

\* lines 73-110 in another process that shares the server: its script runs with
\* the time it read.
OtherEval(id, lag) ==
    LET now == clock - lag
        run == Script(bucket[id], clock, now, TokensPerSecond(rps), burst)
    IN  /\ TotalEvals < MaxEvals
        /\ lag <= clock % EXPIRE_SECONDS
        /\ bucket' = [bucket EXCEPT ![id] = run.key]
        /\ evals' = [evals EXCEPT ![id] = @ + 1]
        /\ grants' = IF run.acquired THEN [grants EXCEPT ![id] = @ + 1] ELSE grants
        /\ caller' = IF Waiting(id) THEN [caller EXCEPT !.touched = TRUE] ELSE caller
        /\ UNCHANGED << rps, burst, clock >>
        /\ UNCHANGED << sinkVars, spiderVars, downloaderVars, validatorVars, sharedVars >>

\* The pauses of a run: a second, or the time a key takes to expire.
Pauses == {1, EXPIRE_SECONDS}

\* Time passes.
Tick(d) ==
    /\ clock + d <= EXPIRE_SECONDS + MaxTicks
    /\ d = 1 => (clock % EXPIRE_SECONDS) < MaxTicks
    /\ clock' = clock + d
    /\ UNCHANGED << rps, burst, bucket, caller, grants, evals >>
    /\ UNCHANGED << sinkVars, spiderVars, downloaderVars, validatorVars, sharedVars >>

LimiterInit ==
    /\ s3_client = FALSE
    /\ SinkFresh
    /\ SpiderIdle
    /\ DownloaderIdle
    /\ ValidatorIdle
    /\ SharedIdle
    /\ rps \in RpsChoices
    /\ burst \in 1..MaxBurst
    /\ bucket = [id \in Identifiers |-> NoKey]
    /\ clock = 0
    /\ caller = IdleCaller
    /\ grants = [id \in Identifiers |-> 0]
    /\ evals = [id \in Identifiers |-> 0]

LimiterNext ==
    \/ \E id \in Identifiers, w \in BOOLEAN : CallAcquire(id, w)
    \/ \E o \in RedisOutcomes : Eval(o)
    \/ Wake
    \/ \E id \in Identifiers, lag \in Lags : OtherEval(id, lag)
    \/ \E d \in Pauses : Tick(d)

SpecLimiter == LimiterInit /\ [][LimiterNext]_vars

----------------------------------------------------------------------------
(* One process that polls acquire(identifier, wait=False), and no other.  The   *)
(* script reads of the time only now - last_refill and the age of the key, so  *)
(* the clock is kept as the seconds since the script ran last.                 *)

\* The key with its times counted from t.
SinceRun(key, t) ==
    [key EXCEPT !.last_refill = { l - t : l \in @ }, !.expires = @ - t]

\* A second passes between two calls.
PollTick ==
    /\ caller.pc = "idle"
    /\ clock < MaxTicks
    /\ clock' = clock + 1
    /\ UNCHANGED << rps, burst, bucket, caller, grants, evals >>
    /\ UNCHANGED << sinkVars, spiderVars, downloaderVars, validatorVars, sharedVars >>

\* lines 70-73: acquire(identifier, wait=False) is called, a second or more
\* after the call before it, and reads the time
PollCall(id) ==
    /\ caller.pc = "idle"
    /\ caller.ret = "none" \/ clock >= 1
    /\ caller' = [IdleCaller EXCEPT !.pc = "eval", !.identifier = id, !.now = clock]
    /\ UNCHANGED << rps, burst, bucket, clock, grants, evals >>
    /\ UNCHANGED << sinkVars, spiderVars, downloaderVars, validatorVars, sharedVars >>

\* lines 103-131: self.redis.eval and the return of acquire; without wait the
\* call returns False when the script did not grant
PollEval(outcome) ==
    LET id == caller.identifier
        run == Script(bucket[id], clock, caller.now, TokensPerSecond(rps), burst)
        ran == outcome # "ConnectionError"
    IN  /\ caller.pc = "eval"
        /\ bucket' = IF ran THEN [bucket EXCEPT ![id] = SinceRun(run.key, clock)]
                     ELSE bucket
        /\ clock' = IF ran THEN 0 ELSE clock
        /\ caller' = [IdleCaller EXCEPT
                         !.identifier = id,
                         !.ret = IF outcome # "ok" THEN FailOpen(outcome)
                                 ELSE IF run.acquired THEN "True" ELSE "False"]
        /\ UNCHANGED << rps, burst, grants, evals >>
        /\ UNCHANGED << sinkVars, spiderVars, downloaderVars, validatorVars, sharedVars >>

PollerNext ==
    \/ PollTick
    \/ \E id \in Identifiers : PollCall(id)
    \/ \E o \in RedisOutcomes : PollEval(o)

SpecPoller == LimiterInit /\ [][PollerNext]_vars

\* The caller calls again.
PollCalls == \E id \in Identifiers : PollCall(id)

\* The call returns.
PollReturns == \E o \in RedisOutcomes : PollEval(o)

\* The caller keeps calling, time passes between its calls, and every call
\* returns.
SpecPollerFair ==
    SpecPoller /\ WF_vars(PollTick) /\ WF_vars(PollCalls) /\ WF_vars(PollReturns)

----------------------------------------------------------------------------
(* Properties of the sink, checked under Spec *)

CallEnded == pc = "idle" /\ item.kind = "Issue"

\* C1: within one process, a store of a key whose earlier store completed as
\* Stored ends as Duplicate and writes nothing; a store whose write succeeded
\* ends as Stored; so no key gets more than one durable write from one process,
\* and a Stored key got exactly one.
C1_StoredThenDuplicate ==
    /\ \A k \in Keys : writesProc[k] <= 1
    /\ \A k \in storedProc : writesProc[k] = 1 /\ k \in processed_issues.keys
    /\ (CallEnded /\ pre.wasStored) => (result = "Duplicate" /\ wrote = {})
    /\ (CallEnded /\ wrote # {}) => (result = "Stored" /\ ~pre.wasStored)

\* A second store of a key already Stored in this process has ended.
C1_Witness ==
    /\ CallEnded
    /\ pre.wasStored
    /\ result = "Duplicate"
    /\ writesProc[item.key] = 1

\* C4 as claimed: a key in the processed set stays in it at every step, the exit
\* of the process and the start of the next one included.
C4_MarkedKeysSurviveExit ==
    [][\A k \in processed_issues.keys : k \in processed_issues'.keys]_vars

\* C4 as amended: the keys the processed file held, completely written, when the
\* process started are in the processed set for the whole life of the process;
\* a store of one of them ends as Duplicate and the process never writes it.
C4_SavedKeysStayDuplicates ==
    /\ \A k \in loaded : k \in processed_issues.keys /\ writesProc[k] = 0
    /\ (CallEnded /\ item.key \in loaded) => result = "Duplicate"
    /\ pc # "idle" => item.key \notin loaded

\* A process that started on a saved key was handed that key again.
C4_Witness ==
    /\ CallEnded
    /\ item.key \in loaded
    /\ result = "Duplicate"
    /\ item.key \in durable

\* C5 as claimed: a store that completes never lowers the checkpoint of a group.
C5_CheckpointNeverRegresses ==
    [][(pc = "advance" /\ result' = "Stored") =>
          \A g \in DOMAIN last_updates :
              g \in DOMAIN last_updates' /\ last_updates'[g] >= last_updates[g]]_vars

\* C6: every key of the processed set, in memory and in its file, has a completed
\* durable write; a call reaches mark_processed only after its write succeeded,
\* reaches set_last_update only after mark_processed, and a call whose write
\* failed marks nothing and leaves the checkpoint alone.
C6_MarkOnlyAfterWrite ==
    /\ processed_issues.keys \subseteq durable
    /\ processed_file.state = "ok" => processed_file.data.keys \subseteq durable
    /\ pc = "write" =>
          /\ item.key \notin processed_issues.keys
          /\ last_updates = pre.last_updates
    /\ pc = "mark" =>
          /\ wrote # {}
          /\ item.key \notin processed_issues.keys
          /\ last_updates = pre.last_updates
    /\ pc = "advance" =>
          /\ wrote # {}
          /\ item.key \in processed_issues.keys
          /\ last_updates = pre.last_updates
    /\ (CallEnded /\ result = "WriteError") =>
          /\ wrote = {}
          /\ item.key \notin processed_issues.keys
          /\ last_updates = pre.last_updates

\* A call written to the fallback and marked stands before set_last_update.
C6_Witness ==
    /\ pc = "advance"
    /\ loc = "ok"
    /\ item.key \in processed_issues.keys
    /\ item.key \in durable

\* C7 as claimed: a call that ended as Stored with a non-empty project left that
\* project's checkpoint at the timestamp of the item's own update time, and every
\* other project's entry as it was when the call began; a call that ended as
\* Duplicate or in an error left the checkpoint map as it was.
C7_CheckpointFrameNonEmpty ==
    /\ (CallEnded /\ result = "Stored" /\ project # <<>>) =>
          /\ project \in DOMAIN last_updates
          /\ last_updates[project] = Timestamp(item.updated)
          /\ \A g \in DOMAIN pre.last_updates \ {project} :
                 /\ g \in DOMAIN last_updates
                 /\ last_updates[g] = pre.last_updates[g]
    /\ (CallEnded /\ result \in {"Duplicate", "WriteError", "MissingProject"}) =>
          last_updates = pre.last_updates

\* C7: a call that ended as Stored with a project that is not whitespace only
\* left that project's checkpoint at the timestamp of the item's own update time,
\* and every other project's entry as it was when the call began; a call that
\* ended as Stored with a whitespace-only project, as Duplicate or in an error
\* left the checkpoint map as it was, and so does a call until it ends.
C7_CheckpointFrame ==
    /\ (CallEnded /\ result = "Stored" /\ IsBlank(project)) =>
          last_updates = pre.last_updates
    /\ (CallEnded /\ result = "Stored" /\ ~IsBlank(project)) =>
          /\ project \in DOMAIN last_updates
          /\ last_updates[project] = Timestamp(item.updated)
          /\ FromTimestamp(last_updates[project]) = item.updated
          /\ DOMAIN last_updates = DOMAIN pre.last_updates \cup {project}
          /\ \A g \in DOMAIN pre.last_updates \ {project} :
                 last_updates[g] = pre.last_updates[g]
    /\ (CallEnded /\ result \in {"Duplicate", "WriteError", "MissingProject"}) =>
          last_updates = pre.last_updates
    /\ pc # "idle" => last_updates = pre.last_updates

\* A Stored call lowered its project's checkpoint while another project had one.
C7_Witness ==
    /\ CallEnded
    /\ result = "Stored"
    /\ project \in DOMAIN pre.last_updates
    /\ pre.last_updates[project] > last_updates[project]
    /\ \E g \in DOMAIN pre.last_updates : g # project

\* C11 as claimed: no durable write was made for a record whose resolved project
\* is empty; the call of such a record ended in an error without a write, a mark
\* or a checkpoint advance.
C11_NoWriteForEmptyGroup ==
    (item.kind = "Issue" /\ project = <<>>) =>
        /\ wrote = {}
        /\ CallEnded => /\ result = "MissingProject"
                        /\ item.key \in processed_issues.keys => pre.wasProcessed
                        /\ last_updates = pre.last_updates

\* C8 as claimed: whenever put_object failed with a credential failure, a service
\* error or a connection-level error, _store_locally ran; when it succeeded the
\* file is at the path of the same project and key, and the call ends as Stored
\* with the key marked and the checkpoint advanced.
C8_PrimaryFailureFallsBack ==
    put \in {"NoCredentialsError", "ClientError", "EndpointConnectionError"} =>
        /\ loc # "unset"
        /\ loc = "ok" =>
              /\ <<"data">> \o S3Key(project, item.key) \in wrote
              /\ CallEnded =>
                    /\ result = "Stored"
                    /\ item.key \in processed_issues.keys
                    /\ last_updates[project] = Timestamp(item.updated)

\* C9: once NoCredentialsError was raised in a process there is no client, and
\* no call begun after it calls put_object: its write goes to _store_locally.
C9_NoPrimaryAfterCredentialFailure ==
    /\ credFailed => ~s3_client
    /\ pre.credFailed => put \in {"unset", "skipped"}
    /\ (pre.credFailed /\ put = "skipped") => loc # "unset"

\* A call begun after the credential failure was stored locally.
C9_Witness ==
    /\ CallEnded
    /\ pre.credFailed
    /\ put = "skipped"
    /\ loc = "ok"
    /\ result = "Stored"

\* C10: an OSError of _store_locally ends the call at once; a call that ended in
\* a write error left its key unmarked, the checkpoint map and the counter as
\* they were and wrote nothing; the call after a failure of both stores ends as
\* Stored when its own write succeeds.
C10_FailedWriteLeavesNoTrace ==
    /\ loc = "OSError" => (pc = "idle" /\ result = "WriteError")
    /\ (CallEnded /\ result = "WriteError") =>
          /\ wrote = {}
          /\ item.key \notin processed_issues.keys
          /\ item.key \notin storedProc
          /\ last_updates = pre.last_updates
          /\ issues_scraped_total = pre.counter
    /\ (CallEnded /\ pre.afterBothFailed /\ wrote # {}) =>
          /\ result = "Stored"
          /\ item.key \in processed_issues.keys
          /\ Count(issues_scraped_total, project) = Count(pre.counter, project) + 1

\* The call after one that failed at S3 and at the local disk ended as Stored.
C10_Witness ==
    /\ CallEnded
    /\ pre.afterBothFailed
    /\ result = "Stored"

----------------------------------------------------------------------------
(* Properties of the spider, checked under SpecSpider *)

\* start() has passed project p
Started(p) == \E n \in 1..(next_project - 1) : ProjectList[n] = p

\* A run without start_date for a project with a checkpoint
Resumed(p) == ~start_date.given /\ p \in DOMAIN spider_last_updates

\* C2 as claimed, at the granularity of the query's date: every search request
\* in flight for a resumed project carries an 'updated >=' clause, and its day is
\* not before the day of the checkpoint.
C2_ResumedRequestsRestricted ==
    \A req \in pending :
        Resumed(req.project) =>
            /\ req.since # {}
            /\ \A d \in req.since :
                   d >= FromTimestamp(spider_last_updates[req.project]).day

\* C3 as claimed: the cursor is the given start date whenever one was given, and
\* the checkpoint is then not read; else the checkpoint; else none.
C3_CursorPriority ==
    \A p \in Projects :
        Started(p) =>
            /\ start_date.given =>
                  /\ cursor[p] = {[day |-> start_date.day, tick |-> 0]}
                  /\ p \notin consulted
            /\ Resumed(p) =>
                  /\ cursor[p] # {}
                  /\ \A dt \in cursor[p] : Timestamp(dt) = spider_last_updates[p]
            /\ (~start_date.given /\ p \notin DOMAIN spider_last_updates) =>
                  cursor[p] = {}

\* C3 as amended: as C3_CursorPriority for a start date in the format
\* %Y-%m-%d; for a start date that does not parse the cursor is the current
\* time less DEFAULT_DAYS days, and the checkpoint is not read either.
C3_CursorPriorityParsed ==
    \A p \in Projects :
        Started(p) =>
            /\ (start_date.given /\ start_date.wellFormed) =>
                  /\ cursor[p] = {[day |-> start_date.day, tick |-> 0]}
                  /\ p \notin consulted
            /\ (start_date.given /\ ~start_date.wellFormed) =>
                  /\ cursor[p] = {[day |-> NowDay - DEFAULT_DAYS, tick |-> 0]}
                  /\ p \notin consulted
            /\ Resumed(p) =>
                  /\ cursor[p] # {}
                  /\ \A dt \in cursor[p] : Timestamp(dt) = spider_last_updates[p]
            /\ (~start_date.given /\ p \notin DOMAIN spider_last_updates) =>
                  cursor[p] = {}

\* Both projects are started with a start date given, and one of them has a
\* checkpoint that was passed over.
C3_Witness ==
    /\ next_project > Len(ProjectList)
    /\ start_date.given
    /\ start_date.wellFormed
    /\ DOMAIN spider_last_updates # {}
    /\ \A p \in Projects : cursor[p] # {}

----------------------------------------------------------------------------
(* The downloader middlewares (src/src/scraper/middlewares.py) on the way of   *)
(* one call: the request a callback yielded, and its reissues.                 *)

\* settings.py:25  RETRY_HTTP_CODES
RETRY_HTTP_CODES == {500, 502, 503, 504, 522, 524, 408, 429}

\* The statuses of the responses drawn: success, not found, and two transient.
Statuses == {200, 404, 429, 503}

\* The Retry-After headers drawn: none, an HTTP date, and seconds below and
\* above retry_max_delay.
RetryAfterHeaders ==
    {NoHeader, [form |-> "date", seconds |-> RatOfInt(0)]}
    \cup { [form |-> "number", seconds |-> RatOfInt(n)] : n \in {0, 120, 400} }

Responses == [status : Statuses, retry_after : RetryAfterHeaders]

\* process_exception has no response.
NoResponseException == [status |-> 0, retry_after |-> NoHeader]

\* lines 95-105: retry_after, or None
RetryAfter(response) ==
    IF response.status = 429 /\ response.retry_after.form = "number"
    THEN {response.retry_after.seconds}
    ELSE {}

\* Mutant of BackoffDelay: the delay without its ceiling.
BackoffDelayUncapped(retry_times) ==
    RatMul(RatOfInt(START_DELAY), RatPow(RatOfInt(EXPONENTIAL_BASE), retry_times - 1))

\* lines 133-136: the exponential backoff
BackoffDelay(retry_times) ==
    RatMin(RatMul(RatOfInt(START_DELAY),
                  RatPow(RatOfInt(EXPONENTIAL_BASE), retry_times - 1)),
           RatOfInt(MAX_DELAY))

\* lines 124-136: delay
Delay(retry_times, retry_after) ==
    IF retry_after # {}
    THEN RatMin(CHOOSE n \in retry_after : TRUE, RatOfInt(MAX_DELAY))
    ELSE BackoffDelay(retry_times)

\* Mutant of RetryAllowed: one retry fewer.
RetryAllowedOneFewer(retry_times, max) == retry_times < max

\* Mutant of RetryAllowed: one retry more.
RetryAllowedOneMore(retry_times, max) == retry_times <= max + 1

\* line 122: retry_times <= self.max_retry_times
RetryAllowed(retry_times, max) == retry_times <= max

\* lines 118-150: _retry gives the request to reissue, or None
Retry(req, retry_after, max) ==
    LET retry_times == req.retry_times + 1
    IN  IF RetryAllowed(retry_times, max)
        THEN { [req EXCEPT !.retry_times = retry_times,
                           !.download_delay = {Delay(retry_times, retry_after)},
                           !.dont_filter = TRUE] }
        ELSE {}

\* Mutant of RequestAfterCopy: the copy shares the meta dict of the request, so
\* that the two assignments to retryreq.meta show in the request as well.
RequestAfterCopyShared(req, retryreq) ==
    [req EXCEPT !.retry_times = retryreq.retry_times,
                !.download_delay = retryreq.download_delay]

\* lines 143-146: the request handed to _retry after retryreq = request.copy()
\* and the assignments to retryreq; Request.copy() builds a new Request with a
\* meta dict of its own, so none of them reaches the request.
RequestAfterCopy(req, retryreq) == req

RequestKinds == {"search", "issue"}

\* spider.py:70-80 and 192-201: a callback yields a request for a project
Yield(kind, p) ==
    /\ phase \in {"none", "delivered", "abandoned"}
    /\ request' = [NoRequest EXCEPT !.kind = kind, !.project = p]
    /\ phase' = "scheduled"
    /\ sends' = 0
    /\ failures' = 0
    /\ prev_delay' = {}
    /\ directive_used' = FALSE
    /\ last_response' = NoResponse
    /\ last_exception' = "none"
    /\ failed_request' = NoRequest
    /\ UNCHANGED max_retry_times
    /\ UNCHANGED << sinkVars, spiderVars, limiterVars, validatorVars, sharedVars >>

\* lines 58-62: RateLimitMiddleware.process_request returns None, and the
\* request goes on to the downloader
ProcessRequest ==
    /\ phase = "scheduled"
    /\ phase' = "downloading"
    /\ sends' = sends + 1
    /\ UNCHANGED << max_retry_times, request, failures, prev_delay,
                    directive_used, last_response, last_exception, failed_request >>
    /\ UNCHANGED << sinkVars, spiderVars, limiterVars, validatorVars, sharedVars >>

\* What a retry leaves: the reissue is scheduled, or the call is given up.
Retried(retry_after) ==
    LET out == Retry(request, retry_after, max_retry_times)
    IN  /\ failures' = failures + 1
        /\ IF out = {}
           THEN /\ phase' = "abandoned"
                /\ failed_request' = request
                /\ UNCHANGED << request, prev_delay, directive_used >>
           ELSE /\ phase' = "scheduled"
                /\ request' = CHOOSE r \in out : TRUE
                /\ failed_request' = RequestAfterCopy(request, request')
                /\ prev_delay' = request.download_delay
                /\ directive_used' = (directive_used \/ retry_after # {})

\* lines 87-110: RetryMiddleware.process_response
ProcessResponse(response) ==
    /\ phase = "downloading"
    /\ last_response' = response
    /\ last_exception' = "none"
    /\ IF response.status \in RETRY_HTTP_CODES
       THEN Retried(RetryAfter(response))
       ELSE /\ phase' = "delivered"
            /\ UNCHANGED << request, failures, prev_delay, directive_used,
                            failed_request >>
    /\ UNCHANGED << max_retry_times, sends >>
    /\ UNCHANGED << sinkVars, spiderVars, limiterVars, validatorVars, sharedVars >>

\* The exceptions a download ends in: two of the transport, and two that are
\* none of the transport's (a URL scheme without a download handler, and a body
\* larger than DOWNLOAD_MAXSIZE).
TransportExceptions == {"TimeoutError", "ConnectionRefusedError"}

Exceptions == TransportExceptions \cup {"NotSupported", "CancelledError"}

\* lines 112-116: RetryMiddleware.process_exception
ProcessException(exception) ==
    /\ phase = "downloading"
    /\ last_response' = NoResponseException
    /\ last_exception' = exception
    /\ Retried({})
    /\ UNCHANGED << max_retry_times, sends >>
    /\ UNCHANGED << sinkVars, spiderVars, limiterVars, validatorVars, sharedVars >>

DownloaderInit ==
    /\ s3_client = FALSE
    /\ SinkFresh
    /\ SpiderIdle
    /\ LimiterIdle
    /\ ValidatorIdle
    /\ SharedIdle
    /\ max_retry_times \in 0..MaxRetryTimes
    /\ request = NoRequest
    /\ phase = "none"
    /\ sends = 0
    /\ failures = 0
    /\ prev_delay = {}
    /\ directive_used = FALSE
    /\ last_response = NoResponse
    /\ last_exception = "none"
    /\ failed_request = NoRequest

DownloaderNext ==
    \/ \E kind \in RequestKinds, p \in Projects : Yield(kind, p)
    \/ ProcessRequest
    \/ \E response \in Responses : ProcessResponse(response)
    \/ \E exception \in Exceptions : ProcessException(exception)

SpecDownloader == DownloaderInit /\ [][DownloaderNext]_vars

\* The engine hands every scheduled request to the downloader, and every
\* download ends in a response or, at the latest at DOWNLOAD_TIMEOUT, in an
\* exception.
DownloadEnds ==
    \/ \E response \in Responses : ProcessResponse(response)
    \/ \E exception \in Exceptions : ProcessException(exception)

SpecDownloaderFair ==
    SpecDownloader /\ WF_vars(ProcessRequest) /\ WF_vars(DownloadEnds)

----------------------------------------------------------------------------
(* The Issue model (src/src/models/issue.py) and the ValidationPipeline         *)
(* (src/src/scraper/pipelines/validation.py): one item from the raw payload to  *)
(* the Issue, on to the file the storage pipeline writes, and back.             *)

\* dict.get(k, default)
Get(obj, k, default) == IF k \in DOMAIN obj.d THEN obj.d[k] ELSE default

IsStr(v) == v.t = "str"

IsDict(v) == v.t = "dict"

\* bool(v) of a string or None
Truthy(v) == IsStr(v) /\ (\A x \in {v} : "s" \in DOMAIN x => x.s # <<>>)

\* issue.py:25-32 parse_datetime, and 54-62 of IssueComment: a string goes
\* through datetime.fromisoformat, anything else is handed on as it is.
ParseDatetime(v) ==
    IF IsStr(v)
    THEN IF "form" \in DOMAIN v /\ v.form \in {"jira", "python"}
         THEN Returned(Datetime(v.dt))
         ELSE Raised("ValueError")
    ELSE Returned(v)

\* A field declared datetime: the value the validator gave has to be one.
DatetimeField(v) ==
    LET parsed == ParseDatetime(v)
    IN  IF parsed.kind = "returned" /\ parsed.value.t = "datetime"
        THEN parsed
        ELSE Raised("ValidationError")

\* A field declared Optional[datetime].
OptionalDatetimeField(v) == IF v = Null THEN Returned(Null) ELSE DatetimeField(v)

\* Mutant of IssueFieldsInit: summary is not required.
IssueFieldsInitSummaryOptional(d) ==
    LET arg     == Dict(d)
        created == DatetimeField(Get(arg, "created", Absent))
        updated == DatetimeField(Get(arg, "updated", Absent))
    IN  IF created.kind = "returned" /\ updated.kind = "returned"
        THEN Returned([ summary |-> Get(arg, "summary", Null), created |-> created.value,
                        updated |-> updated.value,
                        issue_type |-> Get(arg, "issuetype", EmptyDict),
                        comments |-> Get(arg, "comments", Null) ])
        ELSE Raised("ValidationError")

\* issue.py:9-23: IssueFields(**d). Keys that name no field are ignored, and
\* issue_type is read from its alias "issuetype" alone.
IssueFieldsInit(d) ==
    LET arg     == Dict(d)
        summary == Get(arg, "summary", Absent)
        created == DatetimeField(Get(arg, "created", Absent))
        updated == DatetimeField(Get(arg, "updated", Absent))
        issue_type == Get(arg, "issuetype", EmptyDict)
        comments   == Get(arg, "comments", Null)
    IN  IF /\ IsStr(summary)
           /\ created.kind = "returned"
           /\ updated.kind = "returned"
           /\ IsDict(issue_type)
           /\ (comments = Null \/ IsDict(comments))
        THEN Returned([ summary |-> summary, created |-> created.value,
                        updated |-> updated.value, issue_type |-> issue_type,
                        comments |-> comments ])
        ELSE Raised("ValidationError")

\* issue.py:93-99 and 45-62: IssueComment(id=str(c.get("id", "")), ...)
IssueCommentInit(c) ==
    LET author  == Get(c, "author", EmptyDict)
        body    == Get(c, "body", Text(<<>>))
        created == DatetimeField(Get(c, "created", Null))
        updated == OptionalDatetimeField(Get(c, "updated", Null))
    IN  IF /\ IsDict(author)
           /\ IsStr(body)
           /\ created.kind = "returned"
           /\ updated.kind = "returned"
        THEN Returned([ id |-> Get(c, "id", Text(<<>>)), author |-> author,
                        body |-> body, created |-> created.value,
                        updated |-> updated.value ])
        ELSE Raised("ValidationError")

\* issue.py:79-108: Issue.from_jira_api(data)
FromJiraApi(data) ==
    IF "key" \notin DOMAIN data.d \/ "fields" \notin DOMAIN data.d
    THEN Raised("KeyError")
    ELSE
    LET key    == data.d["key"]
        fields == data.d["fields"]
    IN  IF ~IsDict(fields) \/ ~IsDict(Get(fields, "project", EmptyDict))
        THEN Raised("AttributeError")
        ELSE
        LET named   == Get(Get(fields, "project", EmptyDict), "key", Text(<<>>))
            proj    == IF ~Truthy(named) /\ HasDash(key.s)
                       THEN Text(SplitFirst(key.s))
                       ELSE named
            comment == Get(fields, "comment", EmptyDict)
        IN  IF ~IsDict(comment)
            THEN Raised("AttributeError")
            ELSE
            LET comments_data == Get(comment, "comments", List(<<>>)).l
                comments == [i \in 1..Len(comments_data) |->
                                 IssueCommentInit(comments_data[i])]
                fieldsObj == IssueFieldsInit(fields.d)
            IN  IF /\ \A i \in 1..Len(comments_data) : comments[i].kind = "returned"
                   /\ fieldsObj.kind = "returned"
                   /\ IsStr(proj)
                THEN Returned([ key |-> key, project |-> proj,
                                fields |-> fieldsObj.value,
                                comments |-> [i \in 1..Len(comments_data) |->
                                                  comments[i].value] ])
                ELSE Raised("ValidationError")

\* BaseModel.model_dump() of an IssueFields or an IssueComment: the dict of its
\* fields under their names.
ModelDump(obj) == Dict(obj)

\* issue.py:119-126: Issue.to_dict
ToDict(issue) ==
    Dict([ key |-> issue.key, project |-> issue.project,
           fields |-> ModelDump(issue.fields),
           comments |-> List([i \in 1..Len(issue.comments) |->
                                  ModelDump(issue.comments[i])]) ])

\* validation.py:41: issue.model_validate(issue.model_dump())
ModelValidate(issue) ==
    LET dump == ToDict(issue).d
        fieldsObj == IssueFieldsInit(dump["fields"].d)
    IN  IF /\ IsStr(dump["key"])
           /\ IsStr(dump["project"])
           /\ fieldsObj.kind = "returned"
           /\ \A i \in 1..Len(dump["comments"].l) :
                  DatetimeField(dump["comments"].l[i].d["created"]).kind = "returned"
        THEN Returned(issue)
        ELSE Raised("ValidationError")

Unknown == <<"unknown">>

\* validation.py:33-44: the try block
TryValidate(it) ==
    LET issue == FromJiraApi(it)
    IN  IF issue.kind = "returned" THEN ModelValidate(issue.value) ELSE issue

\* validation.py:48: item.get("fields", {}).get("project", {}).get("key", "unknown")
ErrorProject(it) ==
    LET fields == Get(it, "fields", EmptyDict)
    IN  IF ~IsDict(fields) \/ ~IsDict(Get(fields, "project", EmptyDict))
        THEN Raised("AttributeError")
        ELSE Returned(Get(Get(fields, "project", EmptyDict), "key", Text(Unknown)))

\* validation.py:31-65: ValidationPipeline.process_item gives what the call ends
\* in, and the counter it leaves
ProcessItemOutcome(it, strict, counter) ==
    LET tried == TryValidate(it)
    IN  IF tried.kind = "returned"
        THEN [ends |-> tried, counter |-> counter]
        ELSE
        LET proj == ErrorProject(it)
        IN  IF proj.kind = "raised"
            THEN [ends |-> proj, counter |-> counter]
            ELSE [ ends |-> IF strict THEN tried ELSE Raised("DropItem"),
                   counter |-> Inc(counter, <<proj.value, tried.error>>) ]

\* json.dumps(obj, default=str) followed by json.load: a datetime comes back as
\* the string str() made of it.
RECURSIVE JsonText(_)
JsonText(v) ==
    CASE v.t = "datetime" -> TimeText("python", v.dt)
      [] v.t = "dict" -> Dict([k \in DOMAIN v.d |-> JsonText(v.d[k])])
      [] v.t = "list" -> List([i \in 1..Len(v.l) |-> JsonText(v.l[i])])
      [] OTHER -> v

\* The comments of the payloads drawn: two that differ, and one without created.
Comment(id, withCreated) ==
    Dict([k \in {"id", "author", "body"} \cup (IF withCreated THEN {"created"} ELSE {}) |->
            CASE k = "id" -> Text(<<id>>)
              [] k = "author" -> EmptyDict
              [] k = "body" -> Text(<<"b", id>>)
              [] OTHER -> TimeText("jira", FromTimestamp(1))])

CommentLists ==
    { <<>>, <<Comment("2", TRUE), Comment("1", TRUE)>>, <<Comment("3", FALSE)>> }

\* The values drawn for the keys of "fields"; Absent leaves the key out.
FieldChoices ==
    [ project   : {Absent, Null, Dict([key |-> Text(<<"A">>)])},
      summary   : {Absent, Text(<<"s">>)},
      updated   : {TimeText("jira", FromTimestamp(1)), TimeText("bad", FromTimestamp(1))},
      issuetype : {Absent, Dict([name |-> Text(<<"Bug">>)])},
      comment   : {Absent} \cup { Dict([comments |-> List(l)]) : l \in CommentLists } ]

FieldsOf(c) ==
    Dict([k \in {"created"} \cup {k \in DOMAIN c : c[k] # Absent} |->
            IF k = "created" THEN TimeText("jira", FromTimestamp(0)) ELSE c[k]])

PayloadOf(key, fields) ==
    Dict([k \in {k \in {"key", "fields"} :
                    \/ k = "key" /\ key # Absent
                    \/ k = "fields" /\ fields # Absent} |->
            IF k = "key" THEN key ELSE fields])

\* The raw payloads parse_issue hands on (spider.py:222-236); {} is among them.
RawPayloads ==
    { PayloadOf(key, fields) :
        key \in {Absent, Text(KeyA1), Text(KeyNoDash)},
        fields \in {Absent, Null} \cup { FieldsOf(c) : c \in FieldChoices } }

ErrorsCounted == SumOver(validation_errors, DOMAIN validation_errors)

\* validation.py:31-65: the pipeline is handed an item
ProcessItem(it) ==
    /\ ErrorsCounted < MaxErrors
    /\ raw_item' = it
    /\ errors_before' = validation_errors
    /\ LET out == ProcessItemOutcome(it, strict_mode, validation_errors)
       IN  /\ validated' = out.ends
           /\ validation_errors' = out.counter
    /\ json_file' = NoFile
    /\ reread' = NotCalled
    /\ UNCHANGED strict_mode
    /\ UNCHANGED << sinkVars, spiderVars, limiterVars, downloaderVars, sharedVars >>

\* storage.py:57-93: the storage pipeline resolves the project of the Issue it
\* was handed and writes json.dumps(issue_dict, default=str) as
\* raw/{project}/{key}.json
StoreIssue ==
    /\ validated.kind = "returned"
    /\ json_file = NoFile
    /\ LET issue == validated.value
           proj  == IF issue.project.s # <<>>
                    THEN issue.project.s
                    ELSE SplitFirst(issue.key.s)
       IN  /\ issue.project.s # <<>> \/ HasDash(issue.key.s)
           /\ json_file' =
                  [ dir |-> proj,
                    data |-> JsonText(Dict([ToDict(issue).d EXCEPT
                                                !["project"] = Text(proj)])) ]
    /\ UNCHANGED << strict_mode, validation_errors, raw_item, validated,
                    errors_before, reread >>
    /\ UNCHANGED << sinkVars, spiderVars, limiterVars, downloaderVars, sharedVars >>

\* corpus_builder.py:135-142: the corpus builder reads the file
ReadIssue ==
    /\ json_file # NoFile
    /\ reread = NotCalled
    /\ LET issue == FromJiraApi(json_file.data)
       IN  reread' =
               IF /\ issue.kind = "returned"
                  /\ ~Truthy(issue.value.project)
                  /\ json_file.dir # <<>>
               THEN Returned([issue.value EXCEPT !.project = Text(json_file.dir)])
               ELSE issue
    /\ UNCHANGED << strict_mode, validation_errors, raw_item, validated,
                    errors_before, json_file >>
    /\ UNCHANGED << sinkVars, spiderVars, limiterVars, downloaderVars, sharedVars >>

ValidatorInit ==
    /\ s3_client = FALSE
    /\ SinkFresh
    /\ SpiderIdle
    /\ LimiterIdle
    /\ DownloaderIdle
    /\ SharedIdle
    /\ strict_mode \in BOOLEAN
    /\ validation_errors = NoCounts
    /\ raw_item = Null
    /\ validated = NotCalled
    /\ errors_before = NoCounts
    /\ json_file = NoFile
    /\ reread = NotCalled

ValidatorNext ==
    \/ \E it \in RawPayloads : ProcessItem(it)
    \/ StoreIssue
    \/ ReadIssue

SpecValidator == ValidatorInit /\ [][ValidatorNext]_vars

----------------------------------------------------------------------------
(* Two processes on one state directory: each constructs a FileStateManager    *)
(* (src/src/utils/state.py), which loads the two files once, and each call     *)
(* that saves writes the whole of what the process holds.                      *)

\* What processed_issues.json holds when the processes start: nothing, or the
\* keys of earlier runs, one short of a multiple of SAVE_EVERY.
EarlierProcessed == [keys |-> {}, others |-> SAVE_EVERY - 1]

\* lines 17-28: __init__ loads the two files
Construct(w) ==
    /\ ~managers[w].constructed
    /\ managers' =
           [managers EXCEPT ![w] =
               [ constructed |-> TRUE,
                 last_updates |-> LoadLastUpdates(state_files.last_updates),
                 processed_issues |-> LoadProcessedIssues(state_files.processed_issues) ]]
    /\ last_call' = [process |-> w, op |-> "__init__", arg |-> <<>>]
    /\ UNCHANGED state_files
    /\ UNCHANGED << sinkVars, spiderVars, limiterVars, downloaderVars, validatorVars >>

\* lines 89-103: set_last_update(project, timestamp) of process w
SetLastUpdateBy(w, p, t) ==
    /\ managers[w].constructed
    /\ LET lu == SetLastUpdate(managers[w].last_updates, p, t)
       IN  /\ managers' = [managers EXCEPT ![w].last_updates = lu]
           /\ state_files' =
                  [state_files EXCEPT !.last_updates = SaveLastUpdates(lu, @, "ok")]
    /\ last_call' = [process |-> w, op |-> "set_last_update", arg |-> p]
    /\ UNCHANGED << sinkVars, spiderVars, limiterVars, downloaderVars, validatorVars >>

\* lines 116-125: mark_processed(issue_key) of process w
MarkProcessedBy(w, k) ==
    /\ managers[w].constructed
    /\ LET ps == AddProcessed(managers[w].processed_issues, k)
       IN  /\ managers' = [managers EXCEPT ![w].processed_issues = ps]
           /\ IF SaveDue(ps)
              THEN \E f \in SaveProcessedIssues(ps, state_files.processed_issues, "ok") :
                       state_files' = [state_files EXCEPT !.processed_issues = f]
              ELSE UNCHANGED state_files
    /\ last_call' = [process |-> w, op |-> "mark_processed", arg |-> k]
    /\ UNCHANGED << sinkVars, spiderVars, limiterVars, downloaderVars, validatorVars >>

SharedInit ==
    /\ s3_client = FALSE
    /\ SinkFresh
    /\ SpiderIdle
    /\ LimiterIdle
    /\ DownloaderIdle
    /\ ValidatorIdle
    /\ managers = [w \in Processes |-> NotConstructed]
    /\ \E f \in {AbsentFile, OkFile(EarlierProcessed)} :
           state_files = [last_updates |-> AbsentFile, processed_issues |-> f]
    /\ last_call = NoCall

SharedNext ==
    \/ \E w \in Processes : Construct(w)
    \/ \E w \in Processes, p \in Projects, t \in Times :
           SetLastUpdateBy(w, p, FromTimestamp(t))
    \/ \E w \in Processes, k \in {KeyA1, KeyB1} : MarkProcessedBy(w, k)

SpecShared == SharedInit /\ [][SharedNext]_vars

----------------------------------------------------------------------------
(* Properties of the rate limiter, checked under SpecLimiter *)

Minimum(a, b) == IF a < b THEN a ELSE b

\* The call of the observed process has returned.
AcquireReturned == caller.pc = "idle" /\ caller.ret # "none"

StoreErred == \E k \in 1..Len(caller.outcomes) : caller.outcomes[k] = "RedisError"

\* C13: with rps = 0 and a key that starts absent (a full bucket), as long as
\* no key has had the time to expire, the script runs on an identifier are
\* granted until burst of them were and none after that; a call that met no
\* store error returns True exactly when its last script run was granted.
C13_BurstThenRefused ==
    (rps = RatOfInt(0) /\ clock < EXPIRE_SECONDS) =>
        /\ \A id \in Identifiers : grants[id] = Minimum(evals[id], burst)
        /\ (AcquireReturned /\ ~StoreErred) =>
               (caller.ret = "True" <=>
                    caller.outcomes[Len(caller.outcomes)] = "granted")

\* The call after the last token of a bucket of MaxBurst was refused, at a later
\* second than the grants.
C13_Witness ==
    /\ rps = RatOfInt(0)
    /\ burst = MaxBurst
    /\ clock \in 1..(EXPIRE_SECONDS - 1)
    /\ AcquireReturned
    /\ ~StoreErred
    /\ caller.ret = "False"
    /\ grants[caller.identifier] = burst
    /\ evals[caller.identifier] = burst + 1

\* C14 as claimed: over the interval from the start of the run to now, shorter
\* than the time a key takes to expire, the grants on an identifier are at most
\* burst + rps * t.
C14_GrantsWithinRate ==
    clock < EXPIRE_SECONDS =>
        \A id \in Identifiers :
            RatLeq(RatOfInt(grants[id]),
                   RatAdd(RatOfInt(burst), RatMul(rps, RatOfInt(clock))))

\* C15 as claimed: whatever the interleaving of the processes, as long as no
\* key has had the time to expire, the grants on an identifier are at most the
\* initial burst plus what the script's refill adds over the elapsed time.
C15_GrantsWithinRefill ==
    clock < EXPIRE_SECONDS =>
        \A id \in Identifiers :
            RatLeq(RatOfInt(grants[id]),
                   RatAdd(RatOfInt(burst),
                          RatMul(TokensPerSecond(rps), RatOfInt(clock))))

\* C16: a call of acquire in which self.redis.eval raised a store error ended
\* with that error, at once, and returned True.
C16_FailOpen ==
    \A k \in 1..Len(caller.outcomes) :
        caller.outcomes[k] = "RedisError" =>
            /\ k = Len(caller.outcomes)
            /\ caller.pc = "idle"
            /\ caller.ret = "True"

\* A call with wait found no token, slept, and met the store error in its retry.
C16_Witness ==
    /\ caller.outer_wait
    /\ caller.outcomes = <<"empty", "RedisError">>
    /\ caller.ret = "True"

\* C17 as claimed: a call with wait, at a rate above 0, that found no token and
\* whose identifier no other process touched until it returned, has slept,
\* retried once, and its retry was granted.
C17_WaitThenGranted ==
    ( /\ AcquireReturned
      /\ caller.outer_wait
      /\ RatLess(RatOfInt(0), rps)
      /\ ~StoreErred
      /\ ~caller.touched
      /\ caller.outcomes[1] = "empty" ) =>
        /\ caller.outcomes = <<"empty", "granted">>
        /\ caller.ret = "True"

----------------------------------------------------------------------------
(* Properties of the downloader middlewares, checked under SpecDownloader *)

\* C12 as claimed: a request that is with the downloader was preceded by an
\* acquire for its project that returned True (granted, or failed open).
C12_AcquireBeforeSend ==
    phase = "downloading" =>
        /\ caller.identifier = request.project
        /\ caller.ret = "True"

\* The last response was a transient failure with a usable directive or without.
Reissued == phase = "scheduled" /\ request.retry_times >= 1

\* C18: a call whose request got a response that is no transient failure has
\* that response delivered, was reissued once for every failure before it, each
\* reissue past the duplicate filter; and no call is given up before it failed
\* more than max_retry_times times.
C18_RetriedUntilSuccess ==
    /\ phase = "delivered" =>
          /\ last_response.status \notin RETRY_HTTP_CODES
          /\ request.retry_times = failures
          /\ sends = failures + 1
    /\ request.retry_times >= 1 => request.dont_filter
    /\ phase = "abandoned" => failures > max_retry_times
    /\ failures < max_retry_times => phase # "abandoned"

\* A call got its 200 after three failures, one fewer than it may be retried.
C18_Witness ==
    /\ phase = "delivered"
    /\ last_response.status = 200
    /\ failures = 3
    /\ max_retry_times = 4
    /\ sends = 4

\* The failure that led to the last reissue carried no Retry-After header.
NoDirective == last_response.retry_after.form = "absent"

\* C19: the reissue number k that follows a failure without a Retry-After header
\* has download_delay = min(START_DELAY * EXPONENTIAL_BASE^(k-1), MAX_DELAY); it
\* is at most MAX_DELAY, and at least the delay of the reissue before it when no
\* reissue of the call took its delay from a header.
C19_ExponentialBackoff ==
    (Reissued /\ NoDirective) =>
        /\ request.retry_times <= max_retry_times
        /\ request.download_delay =
               { RatMin(RatMul(RatOfInt(START_DELAY),
                               RatPow(RatOfInt(EXPONENTIAL_BASE),
                                      request.retry_times - 1)),
                        RatOfInt(MAX_DELAY)) }
        /\ \A d \in request.download_delay :
               /\ RatLeq(d, RatOfInt(MAX_DELAY))
               /\ ~directive_used =>
                      \A q \in prev_delay : RatLeq(q, d)

\* The tenth reissue of a call that never got a header: its delay is the ceiling.
C19_Witness ==
    /\ Reissued
    /\ NoDirective
    /\ ~directive_used
    /\ request.retry_times = 10
    /\ request.download_delay = {RatOfInt(MAX_DELAY)}
    /\ prev_delay = {RatOfInt(256)}

\* C20 as claimed: the reissue that follows a transient failure whose
\* Retry-After header is a number N has download_delay = min(N, MAX_DELAY).
C20_RetryAfterHonoured ==
    (Reissued /\ last_response.retry_after.form = "number") =>
        request.download_delay =
            { RatMin(last_response.retry_after.seconds, RatOfInt(MAX_DELAY)) }

\* The retry counter of the request counts its reissues, and stays within
\* max_retry_times; a call is sent at most max_retry_times + 1 times.
RetryCounterBounded ==
    /\ request.retry_times <= max_retry_times
    /\ sends <= max_retry_times + 1
    /\ phase = "scheduled" => request.retry_times = sends
    /\ phase \in {"downloading", "delivered", "abandoned"} =>
           request.retry_times = sends - 1
    /\ phase = "abandoned" =>
           /\ failures = max_retry_times + 1
           /\ sends = max_retry_times + 1

\* A reissue adds one to the counter, and a call that was given up sends no
\* request and delivers no response: the next thing is another call.
AbandonedIsFinal ==
    /\ (phase = "downloading" /\ phase' = "scheduled") =>
           request'.retry_times = request.retry_times + 1
    /\ phase = "abandoned" =>
           \/ phase' = "abandoned" /\ sends' = sends /\ request' = request
           \/ phase' = "scheduled" /\ sends' = 0 /\ request'.retry_times = 0

RequestEnded == phase \in {"delivered", "abandoned"}

\* C21: the retry counter grows by one with every reissue and never exceeds
\* max_retry_times; a call that failed max_retry_times + 1 times is given up,
\* with no further request and no response delivered to a callback; and every
\* call that was scheduled ends, delivered or given up.
C21_RetriesBounded ==
    /\ []RetryCounterBounded
    /\ [][AbandonedIsFinal]_vars
    /\ [](phase = "scheduled" => <>RequestEnded)

\* A call that may be retried three times is given up after its fourth failure.
C21_Witness ==
    /\ phase = "abandoned"
    /\ max_retry_times = 3
    /\ request.retry_times = 3
    /\ sends = 4
    /\ failures = 4

\* C22 as claimed: a request is reissued only after a response with a transient
\* status or after an exception of the transport (an error of the connection,
\* a timeout); after any other failure the call ends without a reissue.
C22_ReissuedOnlyWhenRetryable ==
    Reissued =>
        \/ last_response.status \in RETRY_HTTP_CODES
        \/ last_exception \in TransportExceptions

----------------------------------------------------------------------------
(* Properties of the ValidationPipeline and of the Issue model, checked under  *)
(* SpecValidator                                                               *)

\* The item handed to process_item lacks a required field: no key, no fields,
\* or fields without summary.
RequiredMissing ==
    /\ validated # NotCalled
    /\ \/ "key" \notin DOMAIN raw_item.d
       \/ "fields" \notin DOMAIN raw_item.d
       \/ /\ IsDict(Get(raw_item, "fields", Null))
          /\ "summary" \notin DOMAIN raw_item.d["fields"].d

\* The labels whose count changed in the last call of process_item.
Counted ==
    { l \in DOMAIN validation_errors :
        Count(validation_errors, l) # Count(errors_before, l) }

\* C23 as claimed: an item that lacks a required field ends, in lenient mode,
\* in DropItem and in nothing else, with the count of one label, that of the
\* error's kind, grown by exactly 1; in strict mode process_item raises the
\* error of the validation.
C23_InvalidDroppedAndCounted ==
    RequiredMissing =>
        /\ ~strict_mode =>
              /\ validated = Raised("DropItem")
              /\ \E l \in Counted :
                     /\ Counted = {l}
                     /\ l[2] = TryValidate(raw_item).error
                     /\ validation_errors[l] = Count(errors_before, l) + 1
        /\ strict_mode =>
              /\ validated = TryValidate(raw_item)
              /\ validated.kind = "raised"

\* The item is a payload of the schema: a key, and fields with a summary, the
\* two times spelt as times, a project that is a mapping if it is there, and
\* comments that each have the time of their creation.
PayloadValid ==
    /\ validated # NotCalled
    /\ "key" \in DOMAIN raw_item.d
    /\ IsDict(Get(raw_item, "fields", Null))
    /\ LET fields == raw_item.d["fields"]
       IN  /\ IsStr(Get(fields, "summary", Null))
           /\ \A k \in {"created", "updated"} :
                  /\ k \in DOMAIN fields.d
                  /\ "form" \in DOMAIN fields.d[k]
                  /\ fields.d[k].form = "jira"
           /\ IsDict(Get(fields, "project", EmptyDict))
           /\ LET given == Get(Get(fields, "comment", EmptyDict), "comments", List(<<>>)).l
              IN  \A i \in 1..Len(given) : "created" \in DOMAIN given[i].d

\* The Issue process_item returned has the key of the item, and every required
\* field of it and of its comments is there and of its type.
IssueComplete ==
    LET issue == validated.value
    IN  /\ issue.key = raw_item.d["key"]
        /\ IsStr(issue.project)
        /\ IsStr(issue.fields.summary)
        /\ issue.fields.created.t = "datetime"
        /\ issue.fields.updated.t = "datetime"
        /\ \A i \in 1..Len(issue.comments) :
               /\ issue.comments[i].created.t = "datetime"
               /\ IsStr(issue.comments[i].body)

\* C24 as claimed: what process_item returns is an Issue with the key of the
\* item, a project that is not empty, and every required field there and
\* parsed; a valid payload is returned as such an Issue, and for every other
\* item process_item returns nothing.
C24_NoPartialIssue ==
    validated # NotCalled =>
        /\ validated.kind = "returned" =>
               /\ IssueComplete
               /\ validated.value.project.s # <<>>
        /\ PayloadValid <=> validated.kind = "returned"

\* C24 as amended: as C24_NoPartialIssue, with the project of the Issue being
\* the project key of the payload, else the prefix of the key, else empty (a
\* payload that names no project and whose key has no "-").
C24_NoPartialIssueProjectDerived ==
    validated # NotCalled =>
        /\ validated.kind = "returned" =>
               /\ IssueComplete
               /\ LET named == Get(Get(raw_item.d["fields"], "project", EmptyDict),
                                   "key", Text(<<>>))
                  IN  validated.value.project.s =
                          FromJiraApiProject(named.s, raw_item.d["key"].s)
        /\ PayloadValid <=> validated.kind = "returned"

\* A payload with two comments and no project came back as an Issue of the
\* project its key names.
C24_Witness ==
    /\ validated.kind = "returned"
    /\ "project" \notin DOMAIN raw_item.d["fields"].d
    /\ validated.value.key = Text(KeyA1)
    /\ validated.value.project = Text(<<"A">>)
    /\ Len(validated.value.comments) = 2

\* C25 as claimed: the Issue read out of the file the storage pipeline wrote
\* is the Issue that was stored: the same key, the project it was stored
\* under, the same fields, and the same comments in the same order.
C25_RoundTrip ==
    reread # NotCalled =>
        /\ reread.kind = "returned"
        /\ reread.value.key = validated.value.key
        /\ reread.value.project = Text(json_file.dir)
        /\ reread.value.fields = validated.value.fields
        /\ reread.value.comments = validated.value.comments

----------------------------------------------------------------------------
(* Properties of the pagination, checked under SpecSpider *)

\* The search requests of a project that are not yet answered.
PendingOf(p) == { r \in pending : r.project = p }

\* parse_search_results was handed a response it read.
PageRead == last_page.called /\ last_page.read

PageFailed == last_page.called /\ ~last_page.read

\* C26 as claimed: the page request that follows a page starts at the number
\* of issues seen, which is below the total the page reported and below
\* max_issues when that is set; and it starts past the page it follows, so
\* that under a finite total the page requests of a project come to an end,
\* also after a page without issues.
C26_PaginationEnds ==
    PageRead =>
        \A r \in PendingOf(last_page.project) :
            /\ r.start_at = last_page.start_at + last_page.issues
            /\ r.start_at < last_page.total
            /\ max_issues # 0 => r.start_at < max_issues
            /\ r.start_at > last_page.start_at

\* C27 as claimed: with max_issues set, no project gets more issue requests
\* than max_issues.
C27_IssueRequestsWithinMaximum ==
    max_issues # 0 => \A p \in Projects : issue_requests[p] <= max_issues

\* The search requests of a project that the step leaves unanswered.
PendingAfter(p) == { r \in pending' : r.project = p }

\* The step is a call of parse_search_results.
PageParsed == last_page' # last_page

\* A response that is not a 200, or whose body does not parse, adds no issue
\* request and no search request, takes its own request away, and leaves the
\* requests of the other projects and the projects not yet started alone.
FailedPageEndsProject ==
    (PageParsed /\ ~last_page'.read) =>
        /\ issue_requests' = issue_requests
        /\ PendingAfter(last_page'.project) = {}
        /\ \A p \in Projects \ {last_page'.project} : PendingAfter(p) = PendingOf(p)
        /\ next_project' = next_project

\* C28: after a search response that is not a 200 or does not parse, the
\* callback yields no issue request and no search request for the project,
\* the request is not reissued, and the other projects go on as they were.
C28_FailedPageStopsProject ==
    /\ [](PageFailed => PendingOf(last_page.project) = {})
    /\ [][FailedPageEndsProject]_vars

\* The second page of A failed after its first page gave an issue request,
\* while the first page of B is still to be answered.
C28_Witness ==
    /\ PageFailed
    /\ last_page.project = <<"A">>
    /\ last_page.start_at = 1
    /\ issue_requests[<<"A">>] = 1
    /\ PendingOf(<<"A">>) = {}
    /\ PendingOf(<<"B">>) # {}

\* The search request that follows the page read in this step, if any.
NextPageExpected ==
    LET next_start_at == last_page'.start_at + last_page'.issues
    IN  /\ next_start_at < last_page'.total
        /\ max_issues = 0 \/ next_start_at < max_issues

\* C29 as claimed: a page that was read adds one issue request for each of
\* its issues, and the next search request of the project is yielded or not
\* by the page and max_issues alone, whatever became of the issue requests.
C29_OneRequestPerIssue ==
    [][(PageParsed /\ last_page'.read) =>
          /\ issue_requests' =
                 [issue_requests EXCEPT ![last_page'.project] = @ + last_page'.issues]
          /\ NextPageExpected <=> PendingAfter(last_page'.project) # {}]_vars

\* C29 as amended: as C29_OneRequestPerIssue, with one issue request for each
\* issue of the page that has a key.
C29_OneRequestPerKeyedIssue ==
    [][(PageParsed /\ last_page'.read) =>
          /\ issue_requests' =
                 [issue_requests EXCEPT ![last_page'.project] = @ + last_page'.keyed]
          /\ NextPageExpected <=> PendingAfter(last_page'.project) # {}]_vars

\* The second page of B held two issues, one of them without a key, and gave
\* one issue request more; an issue request of the run has ended in the
\* errback, and the first page of B was followed by the second.
C29_Witness ==
    /\ PageRead
    /\ last_page.project = <<"B">>
    /\ last_page.start_at = 1
    /\ last_page.issues = 2
    /\ last_page.keyed = 1
    /\ issue_requests[<<"B">>] = 2
    /\ handled_errors = 1
    /\ PendingOf(<<"B">>) = {}

----------------------------------------------------------------------------
(* Properties of two processes on one state directory, checked under SpecShared *)

\* The checkpoints last_updates.json holds.
SavedUpdates == LoadLastUpdates(state_files.last_updates)

SavedUpdatesAfter == LoadLastUpdates(state_files.last_updates')

\* The keys processed_issues.json holds.
SavedKeys == LoadProcessedIssues(state_files.processed_issues).keys

SavedKeysAfter == LoadProcessedIssues(state_files.processed_issues').keys

\* C30 as claimed: a call of one process leaves in the files what the other
\* process saved: set_last_update(p, ...) changes the checkpoint of p alone,
\* and mark_processed takes no key out of the saved set.
C30_NoLostUpdate ==
    [][/\ \A p \in DOMAIN SavedUpdates :
             p # last_call'.arg =>
                 /\ p \in DOMAIN SavedUpdatesAfter
                 /\ SavedUpdatesAfter[p] = SavedUpdates[p]
       /\ SavedKeys \subseteq SavedKeysAfter]_vars

----------------------------------------------------------------------------
(* Properties of the processed set at its cap, checked under SpecFull *)

\* mark_processed has just rewritten the processed file.
SavedByMark == pc = "mark" /\ pc' = "advance" /\ processed_file' # processed_file

\* C31 as claimed: the processed set holds at most MAX_SAVED entries, in memory
\* and in its file, and a save that drops entries keeps the key marked last.
C31_ProcessedSetCapped ==
    /\ [](/\ ProcessedLen(processed_issues) <= MAX_SAVED
          /\ ProcessedLen(LoadProcessedIssues(processed_file)) <= MAX_SAVED)
    /\ [][SavedByMark => item.key \in processed_file'.data.keys]_vars

----------------------------------------------------------------------------
(* Properties of the state manager, checked under SpecState *)

\* set_last_update(g, t) has just returned.
SetLastUpdateReturned(g) ==
    /\ last_call'.op = "set_last_update"
    /\ last_call'.arg = g

\* C32: set_last_update with an empty or whitespace-only project leaves the
\* checkpoint map and its file as they were; with any other project it leaves
\* every other project's entry of the map as it was and adds none; in both
\* cases the processed set and its file are as they were.
C32_SetLastUpdateFrame ==
    [][\A g \in ProjectArguments :
          SetLastUpdateReturned(g) =>
              /\ processed_issues' = processed_issues
              /\ processed_file' = processed_file
              /\ IF g = <<>> \/ IsBlank(g)
                 THEN /\ last_updates' = last_updates
                      /\ last_update_file' = last_update_file
                 ELSE /\ DOMAIN last_updates' = DOMAIN last_updates \cup {g}
                      /\ \A h \in DOMAIN last_updates \ {g} :
                             last_updates'[h] = last_updates[h]]_vars

\* set_last_update was called with a whitespace-only project on a manager that
\* holds the saved checkpoint of another one.
C32_Witness ==
    /\ last_call.op = "set_last_update"
    /\ last_call.arg = BlankProject
    /\ DOMAIN last_updates = {<<"A">>}
    /\ last_update_file = OkFile(last_updates)

\* The checkpoints last_updates.json holds, completely written.
WrittenCheckpoints == LoadLastUpdates(last_update_file)

\* C40 as claimed: a state manager constructed after a process exit, at any
\* point, returns for every project the timestamp that the set_last_update
\* calls before the exit had completely written for it.
C40_CheckpointDurable ==
    [][last_call'.op = "__init__" =>
          \A g \in DOMAIN WrittenCheckpoints :
              GetLastUpdate(last_updates', g) = {FromTimestamp(WrittenCheckpoints[g])}]_vars

----------------------------------------------------------------------------
(* Properties of the item in the sink, checked under SpecKeys *)

StoredFor(p) ==
    { k \in storedProc : \E i \in KeyItems : i.key = k /\ ResolveProject(i) = {p} }

\* C34: the counter of a project is the number of calls of this process that
\* ended as Stored for it; a call raises it by one when it ends as Stored and
\* leaves it alone until then and when it ends as a duplicate, without a
\* project or in a write error.
C34_CounterCountsStored ==
    /\ \A p \in DOMAIN issues_scraped_total \cup Projects \cup {<<>>} :
           Count(issues_scraped_total, p) = Cardinality(StoredFor(p))
    /\ pc # "idle" => issues_scraped_total = pre.counter
    /\ (CallEnded /\ result \in {"Duplicate", "MissingProject", "WriteError"}) =>
           issues_scraped_total = pre.counter
    /\ (CallEnded /\ result = "Stored") =>
           /\ Count(issues_scraped_total, project) = Count(pre.counter, project) + 1
           /\ \A p \in DOMAIN pre.counter \ {project} :
                  Count(issues_scraped_total, p) = pre.counter[p]

\* After two records of one project were stored, a third call for it ended as
\* a duplicate.
C34_Witness ==
    /\ CallEnded
    /\ result = "Duplicate"
    /\ Count(issues_scraped_total, project) = 2
    /\ Cardinality(StoredFor(project)) = 2

----------------------------------------------------------------------------
(* Properties of the reissued request, checked under SpecDownloader *)

\* _retry has just returned a request to reissue.
RetryReissued == phase = "downloading" /\ phase' = "scheduled"

\* _retry has just returned.
RetryReturned == phase = "downloading" /\ phase' \in {"scheduled", "abandoned"}

\* C35: the request _retry returns has the callback, the URL and the project of
\* the request it was handed, the attempt counter of that request plus one, a
\* download delay of its own and dont_filter set; the request it was handed is
\* afterwards as it was before, its attempt counter included.
C35_ReissueIsCopy ==
    [][/\ RetryReissued =>
             /\ request'.kind = request.kind
             /\ request'.project = request.project
             /\ request'.retry_times = request.retry_times + 1
             /\ request'.download_delay # {}
             /\ request'.dont_filter
       /\ RetryReturned => failed_request' = request]_vars

\* A reissued request failed and was reissued again.
C35_Witness ==
    /\ phase = "scheduled"
    /\ request.retry_times = 2
    /\ request.dont_filter
    /\ failed_request.retry_times = 1
    /\ failed_request.download_delay # request.download_delay

----------------------------------------------------------------------------
(* Properties of the offsets of the search requests, checked under SpecSpider *)

\* C36 as claimed: the request that follows a page that was read asks for the
\* offset of that page plus the number of its issues, with the page size the
\* response advertised or the default one, and that offset is beyond the
\* offset of the page, so that no offset is asked for twice.
C36_OffsetsIncrease ==
    [][(PageParsed /\ last_page'.read) =>
          \A r \in PendingAfter(last_page'.project) :
              /\ r.start_at = last_page'.start_at + last_page'.issues
              /\ r.max_results \in {DEFAULT_MAX_RESULTS, MaxPageItems}
              /\ r.start_at > last_page'.start_at]_vars

----------------------------------------------------------------------------
(* Properties of the stored tokens, checked under SpecLimiter *)

\* C37: the tokens field of every key is at least 0 and at most burst, also
\* after script runs whose now is earlier than the last_refill they found.
C37_TokensWithinBurst ==
    \A id \in Identifiers :
        \A tokens \in bucket[id].tokens :
            /\ RatLeq(RatOfInt(0), tokens)
            /\ RatLeq(tokens, RatOfInt(burst))

\* The script of the observed call ran with a now earlier than the last_refill
\* of the key, granted, and stored the tokens it left.
C37_Witness ==
    /\ caller.pc = "idle"
    /\ caller.late
    /\ caller.ret = "True"
    /\ bucket[caller.identifier].tokens # {}

----------------------------------------------------------------------------
(* Properties of the polling caller, checked under SpecPollerFair *)

\* A call of acquire is under way on a limiter whose rps is above 0.
PollerCalled == caller.pc = "eval" /\ rps.num > 0

\* acquire returned True.
PollerGranted == caller.pc = "idle" /\ caller.ret = "True"

\* C38 as claimed: with rps above 0, a caller that keeps calling
\* acquire(identifier, wait=False), a second or more apart, gets True in the end.
C38_PollerGranted == PollerCalled ~> PollerGranted

\* The last call of process_item ended in DropItem and counted once: the count
\* of one label grew by 1 and no other count changed.
DroppedAndCountedOnce ==
    /\ validated = Raised("DropItem")
    /\ \E l \in Counted :
           /\ Counted = {l}
           /\ validation_errors[l] = Count(errors_before, l) + 1

\* C39 as claimed: in lenient mode every call of process_item, whatever the
\* item, either returns an Issue and leaves the counter alone or raises
\* DropItem and counts the item once; no other exception escapes.
C39_LenientReturnsOrDrops ==
    (validated # NotCalled /\ ~strict_mode) =>
        \/ validated.kind = "returned" /\ validation_errors = errors_before
        \/ DroppedAndCountedOnce

\* The same for the items whose "fields" and "project" entries are absent or
\* mappings.
C39_MappingsReturnOrDrop ==
    (/\ validated # NotCalled
     /\ IsDict(Get(raw_item, "fields", EmptyDict))
     /\ IsDict(Get(Get(raw_item, "fields", EmptyDict), "project", EmptyDict)))
        => C39_LenientReturnsOrDrops

====
